---- MODULE Spec2Model ----
(***************************************************************************)
(* A model of the wampire WAMP router (src/src/router): the per-connection *)
(* session handler, the subscription and registration pattern tries, and   *)
(* the realm bookkeeping.                                                  *)
(*                                                                         *)
(* Conventions.                                                            *)
(*  - A URI is the sequence of its segments, i.e. the result of            *)
(*    `uri.split('.')`: "a.b" is <<"a","b">>, ".b" is <<"","b">>, and the  *)
(*    empty string is <<"">> (split never yields an empty sequence).       *)
(*  - random_id() draws from [1, 2^53); the model excludes collisions:     *)
(*    every trie node gets ids that no other node has, and invocation ids  *)
(*    are fresh.                                                           *)
(*  - Sender::send is taken to succeed (the transport is external).        *)
(*  - Every handler that holds the realm mutex for its whole body is one   *)
(*    atomic action.                                                       *)
(***************************************************************************)
EXTENDS Integers, Sequences, FiniteSets, TLC

\* ------------------------------------------------------------------ bounds

\* Longest URI / pattern, in segments.
MaxLen == 2
\* Most calls of subscribe_with / register_with in one behaviour.
MaxInserts == 2
\* The most invocations the router dispatches.
MaxCalls == 2
\* The most entries of a realm's connection list.
MaxAttach == 2
\* The longest run of successive calls to one pattern.
MaxRun == 3

\* The number of requests the client's user makes.
MaxRequests == 3
\* registrations made in a run of the round-robin rotation
MaxRegisters == 3

\* ------------------------------------------------------------ vocabularies

Conns == {1, 2}
RealmNames == {"r1", "r2"}
Seg == {"", "a", "b"}
Lit == Seg \ {""}

Paths == UNION {[1..n -> Seg] : n \in 0..MaxLen}
URIs == Paths \ {<<>>}
\* URIs without an empty segment
PlainURIs == UNION {[1..n -> Lit] : n \in 1..MaxLen}

MatchingPolicy == {"Prefix", "Wildcard", "Strict"}
InvocationPolicy == {"Single", "RoundRobin", "Random", "First", "Last"}

ConnectionState == {"Initializing", "Connected", "ShuttingDown", "Disconnected"}

\* ------------------------------------------------------------------- state

VARIABLES
    realms,                    \* RouterInfo.realms: the names added by add_realm
    state,                     \* ConnectionInfo.state, per connection
    sock,                      \* the connection's WebSocket: "open", "closing", "closed"
    realm,                     \* ConnectionHandler.realm, per connection ("" is None)
    subscribed_topics,         \* ConnectionHandler.subscribed_topics
    registered_procedures,     \* ConnectionHandler.registered_procedures
    connections,               \* Realm.connections, per realm
    subscriptions,             \* SubscriptionManager.subscriptions (the trie), per realm
    subscription_ids_to_uris,  \* SubscriptionManager.subscription_ids_to_uris, per realm
    registrations,             \* RegistrationManager.registrations (the trie), per realm
    registration_ids_to_uris,  \* RegistrationManager.registration_ids_to_uris, per realm
    active_calls,              \* RegistrationManager.active_calls, per realm
    shutdown_phase,            \* progress of Router::shutdown
    last,                      \* the event handled by the latest step
    sent,                      \* the messages the latest step sent, in order
    dispatched,                \* history: invocation id -> the call it was created for
    inserts,                   \* history: calls of subscribe_with / register_with so far
    out,                       \* result of the latest pure trie operation
    client,                    \* client.rs: the Client and its ConnectionInfo
    user,                      \* history: what the client's user has seen
    locking,                   \* the router's mutexes and the threads that take them
    codec                      \* a message, its encoding and what decoding gave

vars == <<realms, state, sock, realm, subscribed_topics, registered_procedures,
          connections, subscriptions, subscription_ids_to_uris, registrations,
          registration_ids_to_uris, active_calls, shutdown_phase, last, sent,
          dispatched, inserts, out, client, user, locking, codec>>

\* ----------------------------------------------------------------- helpers

Front(s) == SubSeq(s, 1, Len(s) - 1)
Last(s) == s[Len(s)]
Range(s) == {s[i] : i \in 1..Len(s)}

SegNum(s) == CASE s = "" -> 1 [] s = "a" -> 2 [] s = "b" -> 3

RECURSIVE PathNum(_)
PathNum(p) == IF p = <<>> THEN 0 ELSE PathNum(Front(p)) * 4 + SegNum(Last(p))

RealmNum(r) == IF r = "r1" THEN 0 ELSE 1

\* random_id() at the creation of the node at path p of realm r's trie: the
\* node id (pre = 0) and the prefix id (pre = 1).  Injective by construction.
random_id(r, p, pre) == 4 * PathNum(p) + 2 * RealmNum(r) + pre + 1

\* ------------------------------------------------- subscription trie (pubsub)

\* SubscriptionPatternNode::new for the node at path p of realm r's trie.  The
\* whole (finite) tree of possible nodes is laid out in advance; `exists` says
\* whether the edge leading to the node has been created.
SubscriptionPatternNode_new(r, p) ==
    [exists |-> (p = <<>>),
     id |-> random_id(r, p, 0),
     prefix_id |-> random_id(r, p, 1),
     connections |-> <<>>,
     prefix_connections |-> <<>>]

NewSubscriptionTrie(r) == [p \in Paths |-> SubscriptionPatternNode_new(r, p)]

\* self.edges.insert(bit, SubscriptionPatternNode::new()): the node at the edge
\* is replaced by a new one, with new random ids, on every visit.
sub_edge_insert(trie, node, bit) ==
    [trie EXCEPT ![Append(node, bit)] =
        [exists |-> TRUE, id |-> @.id + 64, prefix_id |-> @.prefix_id + 64,
         connections |-> <<>>, prefix_connections |-> <<>>]]

\* self.edges.entry(bit).or_insert_with(SubscriptionPatternNode::new)
sub_edge_entry(trie, node, bit) ==
    [trie EXCEPT ![Append(node, bit)].exists = TRUE]

RECURSIVE add_subscription(_, _, _, _, _)
add_subscription(trie, node, uri_bits, subscriber, matching_policy) ==
    IF uri_bits # <<>>
    THEN LET uri_bit == Head(uri_bits) IN
         IF uri_bit = "" /\ matching_policy # "Wildcard"
         THEN [ok |-> FALSE, trie |-> trie, id |-> 0, reason |-> "InvalidURI"]
         ELSE add_subscription(sub_edge_entry(trie, node, uri_bit),
                               Append(node, uri_bit), Tail(uri_bits),
                               subscriber, matching_policy)
    ELSE LET w == [subscriber |-> subscriber, policy |-> matching_policy] IN
         IF matching_policy = "Prefix"
         THEN [ok |-> TRUE,
               trie |-> [trie EXCEPT ![node].prefix_connections = Append(@, w)],
               id |-> trie[node].prefix_id, reason |-> ""]
         ELSE [ok |-> TRUE,
               trie |-> [trie EXCEPT ![node].connections = Append(@, w)],
               id |-> trie[node].id, reason |-> ""]

\* split('.') always yields a first item, so the InvalidURI arm of the first
\* match is dead; the first segment is not checked for emptiness.
subscribe_with(trie, topic, subscriber, matching_policy) ==
    LET initial == Head(topic) IN
    add_subscription(sub_edge_entry(trie, <<>>, initial), <<initial>>,
                     Tail(topic), subscriber, matching_policy)

RECURSIVE remove_subscription(_, _, _, _, _)
remove_subscription(trie, node, uri_bits, subscriber_id, is_prefix) ==
    IF uri_bits # <<>>
    THEN LET child == Append(node, Head(uri_bits)) IN
         IF child \in Paths /\ trie[child].exists
         THEN remove_subscription(trie, child, Tail(uri_bits), subscriber_id, is_prefix)
         ELSE [ok |-> FALSE, trie |-> trie, id |-> 0, reason |-> "InvalidURI"]
    ELSE LET Keep(sub) == sub.subscriber # subscriber_id IN
         IF is_prefix
         THEN [ok |-> TRUE,
               trie |-> [trie EXCEPT ![node].prefix_connections = SelectSeq(@, Keep)],
               id |-> trie[node].prefix_id, reason |-> ""]
         ELSE [ok |-> TRUE,
               trie |-> [trie EXCEPT ![node].connections = SelectSeq(@, Keep)],
               id |-> trie[node].id, reason |-> ""]

unsubscribe_with(trie, topic, subscriber, is_prefix) ==
    remove_subscription(trie, <<>>, topic, subscriber, is_prefix)

\* ---- MatchIterator: the push-down automaton behind filter()

NoItem == [subscriber |-> 0, id |-> 0, policy |-> "", node |-> <<>>, pos |-> 0]

StackFrame(node, depth) == [node |-> node, state |-> "None", pos |-> 0, depth |-> depth]

\* filter(): the iterator positioned at the root.  `stack` is the chain of
\* frames from the root to `current` (its last element).
filter(topic) == [uri |-> topic, stack |-> <<StackFrame(<<>>, 0)>>]

current(it) == Last(it.stack)

set_state(it, st) ==
    [it EXCEPT !.stack[Len(it.stack)].state = st, !.stack[Len(it.stack)].pos = 0]

push(it, child) ==
    [it EXCEPT !.stack = Append(@, StackFrame(child, current(it).depth + 1))]

has_edge(trie, node, bit) ==
    Append(node, bit) \in Paths /\ trie[Append(node, bit)].exists

\* One pass through traverse() up to its tail call of next(): the automaton's
\* transition.  done is the `return None`.
traverse(trie, it) ==
    LET cur == current(it)
        st == cur.state
        full == (cur.depth = Len(it.uri))
        bit == it.uri[cur.depth + 1]
    IN
    CASE st = "None" -> [it |-> set_state(it, "Prefix"), done |-> FALSE]
      [] st = "Prefix" -> [it |-> set_state(it, "PrefixComplete"), done |-> FALSE]
      [] st = "PrefixComplete" ->
            IF full THEN [it |-> set_state(it, "Subs"), done |-> FALSE]
            ELSE IF has_edge(trie, cur.node, "")
            THEN [it |-> push(set_state(it, "Wildcard"), Append(cur.node, "")),
                  done |-> FALSE]
            ELSE IF has_edge(trie, cur.node, bit)
            THEN [it |-> push(set_state(it, "Strict"), Append(cur.node, bit)),
                  done |-> FALSE]
            ELSE [it |-> set_state(it, "AllComplete"), done |-> FALSE]
      [] st = "Wildcard" ->
            IF full THEN [it |-> set_state(it, "AllComplete"), done |-> FALSE]
            ELSE IF has_edge(trie, cur.node, bit)
            THEN [it |-> push(set_state(it, "Strict"), Append(cur.node, bit)),
                  done |-> FALSE]
            ELSE [it |-> set_state(it, "AllComplete"), done |-> FALSE]
      [] st = "Strict" -> [it |-> set_state(it, "AllComplete"), done |-> FALSE]
      [] st = "Subs" -> [it |-> set_state(it, "AllComplete"), done |-> FALSE]
      [] st = "AllComplete" ->
            IF cur.depth = 0 THEN [it |-> it, done |-> TRUE]
            ELSE [it |-> [it EXCEPT !.stack = Front(@)], done |-> FALSE]

\* The head of Iterator::next: the item the running list iterator yields, if any.
\* An item carries the place (node, position) of the entry it was read from.
iter_item(trie, it) ==
    LET cur == current(it)
        n == trie[cur.node]
    IN
    IF cur.state = "Prefix" /\ cur.pos < Len(n.prefix_connections)
    THEN [subscriber |-> n.prefix_connections[cur.pos + 1].subscriber,
          id |-> n.prefix_id,
          policy |-> n.prefix_connections[cur.pos + 1].policy,
          node |-> cur.node, pos |-> cur.pos + 1]
    ELSE IF cur.state = "Subs" /\ cur.pos < Len(n.connections)
    THEN [subscriber |-> n.connections[cur.pos + 1].subscriber,
          id |-> n.id,
          policy |-> n.connections[cur.pos + 1].policy,
          node |-> cur.node, pos |-> cur.pos + 1]
    ELSE NoItem

advance(it) == [it EXCEPT !.stack[Len(it.stack)].pos = @ + 1]

RECURSIVE collect(_, _, _, _)
\* Running the iterator to its end, as `for ... in filter(topic)` does: the
\* items in the order yielded.  fuel bounds the number of calls of traverse;
\* terminated is FALSE when it runs out before the iterator returns None.
collect(trie, it, acc, fuel) ==
    IF fuel = 0 THEN [items |-> acc, terminated |-> FALSE]
    ELSE LET item == iter_item(trie, it) IN
         IF item # NoItem
         THEN collect(trie, advance(it), Append(acc, item), fuel)
         ELSE LET t == traverse(trie, it) IN
              IF t.done THEN [items |-> acc, terminated |-> TRUE]
              ELSE collect(trie, t.it, acc, fuel - 1)

\* More automaton transitions than any run over Paths can take: a frame makes
\* at most seven, and a node is entered at most twice.
IterFuel == 16 * Cardinality(Paths)

\* `manager.subscriptions.filter(topic)` consumed to the end.
filter_all(trie, topic) == collect(trie, filter(topic), <<>>, IterFuel)

\* ---------------------------------------------------- registration trie (rpc)

\* ProcdureCollection as RegistrationPatternNode::new builds it.
ProcdureCollection_new ==
    [invocation_policy |-> "Single", round_robin_counter |-> 0, procedures |-> <<>>]

RegistrationPatternNode_new(r, p) ==
    [exists |-> (p = <<>>),
     id |-> random_id(r, p, 0),
     prefix_id |-> random_id(r, p, 1),
     connections |-> ProcdureCollection_new,
     prefix_connections |-> ProcdureCollection_new]

NewRegistrationTrie(r) == [p \in Paths |-> RegistrationPatternNode_new(r, p)]

\* add_procedure without the comparison with the stored invocation policy.
add_procedure_accepts_shared(coll, invocation_policy) ==
    coll.procedures = <<>> \/ invocation_policy # "Single"

\* The condition under which add_procedure accepts the new entry.
add_procedure_accepts(coll, invocation_policy) ==
    \/ coll.procedures = <<>>
    \/ (invocation_policy = coll.invocation_policy /\ invocation_policy # "Single")

\* An entry is DataWrapper {registrant, policy}; `invoke` is history, not code:
\* the invocation policy the entry was registered with.
add_procedure(coll, registrant, matching_policy, invocation_policy) ==
    IF add_procedure_accepts(coll, invocation_policy)
    THEN [ok |-> TRUE,
          coll |-> [coll EXCEPT
                      !.procedures = Append(@, [registrant |-> registrant,
                                                policy |-> matching_policy,
                                                invoke |-> invocation_policy]),
                      !.invocation_policy = invocation_policy]]
    ELSE [ok |-> FALSE, coll |-> coll]

\* remove_procedure emptying the list instead of filtering it.
remove_procedure_all(coll, registrant_id) == [coll EXCEPT !.procedures = <<>>]

remove_procedure(coll, registrant_id) ==
    LET Keep(sub) == sub.registrant # registrant_id IN
    [coll EXCEPT !.procedures = SelectSeq(@, Keep)]

\* The cursor get_entry reads under RoundRobin, after its reset.
round_robin_index(coll) ==
    IF coll.round_robin_counter >= Len(coll.procedures) THEN 0
    ELSE coll.round_robin_counter

\* get_entry whose RoundRobin arm leaves the cursor where it is.
get_entry_unmoved(coll, rnd) ==
    LET n == Len(coll.procedures) IN
    CASE coll.invocation_policy \in {"Single", "First"} ->
            [idx |-> IF n = 0 THEN 0 ELSE 1, coll |-> coll]
      [] coll.invocation_policy = "Last" -> [idx |-> n, coll |-> coll]
      [] coll.invocation_policy = "Random" ->
            [idx |-> IF n = 0 THEN 0 ELSE (rnd % n) + 1, coll |-> coll]
      [] coll.invocation_policy = "RoundRobin" ->
            [idx |-> IF coll.round_robin_counter < n
                     THEN coll.round_robin_counter + 1 ELSE 0,
             coll |-> coll]

\* get_entry: idx is the 1-based position of the chosen entry, 0 for None.
\* rnd is the draw of thread_rng() (used by Random only).  The collection comes
\* back because RoundRobin moves the cursor through the RefCell.
get_entry(coll, rnd) ==
    LET n == Len(coll.procedures) IN
    CASE coll.invocation_policy \in {"Single", "First"} ->
            [idx |-> IF n = 0 THEN 0 ELSE 1, coll |-> coll]
      [] coll.invocation_policy = "Last" -> [idx |-> n, coll |-> coll]
      [] coll.invocation_policy = "Random" ->
            [idx |-> IF n = 0 THEN 0 ELSE (rnd % n) + 1, coll |-> coll]
      [] coll.invocation_policy = "RoundRobin" ->
            LET counter == round_robin_index(coll) IN
            [idx |-> IF counter < n THEN counter + 1 ELSE 0,
             coll |-> [coll EXCEPT !.round_robin_counter = counter + 1]]

reg_edge_entry(trie, node, bit) ==
    [trie EXCEPT ![Append(node, bit)].exists = TRUE]

RECURSIVE add_registration(_, _, _, _, _, _)
add_registration(trie, node, uri_bits, registrant, matching_policy, invocation_policy) ==
    IF uri_bits # <<>>
    THEN LET uri_bit == Head(uri_bits) IN
         IF uri_bit = "" /\ matching_policy # "Wildcard"
         THEN [ok |-> FALSE, trie |-> trie, id |-> 0, reason |-> "InvalidURI"]
         ELSE add_registration(reg_edge_entry(trie, node, uri_bit),
                               Append(node, uri_bit), Tail(uri_bits),
                               registrant, matching_policy, invocation_policy)
    ELSE IF matching_policy = "Prefix"
         THEN LET r == add_procedure(trie[node].prefix_connections, registrant,
                                     matching_policy, invocation_policy) IN
              IF r.ok
              THEN [ok |-> TRUE,
                    trie |-> [trie EXCEPT ![node].prefix_connections = r.coll],
                    id |-> trie[node].prefix_id, reason |-> ""]
              ELSE [ok |-> FALSE, trie |-> trie, id |-> 0,
                    reason |-> "ProcedureAlreadyExists"]
         ELSE LET r == add_procedure(trie[node].connections, registrant,
                                     matching_policy, invocation_policy) IN
              IF r.ok
              THEN [ok |-> TRUE,
                    trie |-> [trie EXCEPT ![node].connections = r.coll],
                    id |-> trie[node].id, reason |-> ""]
              ELSE [ok |-> FALSE, trie |-> trie, id |-> 0,
                    reason |-> "ProcedureAlreadyExists"]

register_with(trie, topic, registrant, matching_policy, invocation_policy) ==
    LET initial == Head(topic) IN
    add_registration(reg_edge_entry(trie, <<>>, initial), <<initial>>, Tail(topic),
                     registrant, matching_policy, invocation_policy)

RECURSIVE remove_registration(_, _, _, _, _)
remove_registration(trie, node, uri_bits, registrant_id, is_prefix) ==
    IF uri_bits # <<>>
    THEN LET child == Append(node, Head(uri_bits)) IN
         IF child \in Paths /\ trie[child].exists
         THEN remove_registration(trie, child, Tail(uri_bits), registrant_id, is_prefix)
         ELSE [ok |-> FALSE, trie |-> trie, id |-> 0, reason |-> "InvalidURI"]
    ELSE IF is_prefix
         THEN [ok |-> TRUE,
               trie |-> [trie EXCEPT ![node].prefix_connections =
                                        remove_procedure(@, registrant_id)],
               id |-> trie[node].prefix_id, reason |-> ""]
         ELSE [ok |-> TRUE,
               trie |-> [trie EXCEPT ![node].connections =
                                        remove_procedure(@, registrant_id)],
               id |-> trie[node].id, reason |-> ""]

unregister_with(trie, topic, registrant, is_prefix) ==
    remove_registration(trie, <<>>, topic, registrant, is_prefix)

NotFound(trie) ==
    [found |-> FALSE, trie |-> trie, registrant |-> 0, id |-> 0, policy |-> "",
     node |-> <<>>, pre |-> FALSE, idx |-> 0]

\* `self.prefix_connections.get_entry()` at node, as a lookup result.
prefix_entry(trie, node, rnd) ==
    LET g == get_entry(trie[node].prefix_connections, rnd)
        t == [trie EXCEPT ![node].prefix_connections = g.coll]
    IN
    IF g.idx = 0 THEN NotFound(t)
    ELSE [found |-> TRUE, trie |-> t,
          registrant |-> trie[node].prefix_connections.procedures[g.idx].registrant,
          id |-> trie[node].prefix_id,
          policy |-> trie[node].prefix_connections.procedures[g.idx].policy,
          node |-> node, pre |-> TRUE, idx |-> g.idx]

\* `self.connections.get_entry()` at node, as a lookup result.
exact_entry(trie, node, rnd) ==
    LET g == get_entry(trie[node].connections, rnd)
        t == [trie EXCEPT ![node].connections = g.coll]
    IN
    IF g.idx = 0 THEN NotFound(t)
    ELSE [found |-> TRUE, trie |-> t,
          registrant |-> trie[node].connections.procedures[g.idx].registrant,
          id |-> trie[node].id,
          policy |-> trie[node].connections.procedures[g.idx].policy,
          node |-> node, pre |-> FALSE, idx |-> g.idx]

RECURSIVE find_registrant(_, _, _, _, _)
RECURSIVE recurse(_, _, _, _, _)

find_registrant(trie, node, uri_bits, depth, rnd) ==
    IF depth = Len(uri_bits)
    THEN LET e == exact_entry(trie, node, rnd) IN
         IF e.found THEN e ELSE prefix_entry(e.trie, node, rnd)
    ELSE LET r == recurse(trie, node, uri_bits, depth, rnd) IN
         IF r.found THEN r ELSE prefix_entry(r.trie, node, rnd)

recurse(trie, node, uri_bits, depth, rnd) ==
    LET bit == uri_bits[depth + 1]
        lit == IF has_edge(trie, node, bit)
               THEN find_registrant(trie, Append(node, bit), uri_bits, depth + 1, rnd)
               ELSE NotFound(trie)
    IN
    IF lit.found THEN lit
    ELSE IF has_edge(lit.trie, node, "")
         THEN find_registrant(lit.trie, Append(node, ""), uri_bits, depth + 1, rnd)
         ELSE NotFound(lit.trie)

\* Err(NoSuchProcedure) is found = FALSE.
get_registrant_for(trie, procedure, rnd) ==
    find_registrant(trie, <<>>, procedure, 0, rnd)

\* ------------------------------------------------------------------ messages

\* A WAMP message, flattened to one record shape.  args stands for the pair
\* (args, kwargs); uri <<>> is an absent details.topic / details.procedure.
Message(type, etype, id1, id2, reason, uri, args) ==
    [type |-> type, etype |-> etype, id1 |-> id1, id2 |-> id2,
     reason |-> reason, uri |-> uri, args |-> args]

Welcome(session_id) == Message("Welcome", "", session_id, 0, "", <<>>, 0)
Abort(reason) == Message("Abort", "", 0, 0, reason, <<>>, 0)
Goodbye(reason) == Message("Goodbye", "", 0, 0, reason, <<>>, 0)
Error(e_type, request_id, reason, args) ==
    Message("Error", e_type, request_id, 0, reason, <<>>, args)
\* A Subscribed that does not tell the subscription id.
Subscribed_untold(request_id, topic_id) ==
    Message("Subscribed", "", request_id, 0, "", <<>>, 0)
Subscribed(request_id, topic_id) ==
    Message("Subscribed", "", request_id, topic_id, "", <<>>, 0)
Unsubscribed(request_id) == Message("Unsubscribed", "", request_id, 0, "", <<>>, 0)
Published(request_id, publication_id) ==
    Message("Published", "", request_id, publication_id, "", <<>>, 0)
Event(topic_id, publication_id, topic, args) ==
    Message("Event", "", topic_id, publication_id, "", topic, args)
Registered(request_id, procedure_id) ==
    Message("Registered", "", request_id, procedure_id, "", <<>>, 0)
Unregistered(request_id) == Message("Unregistered", "", request_id, 0, "", <<>>, 0)
Invocation(invocation_id, procedure_id, procedure, args) ==
    Message("Invocation", "", invocation_id, procedure_id, "", procedure, args)
Result(request_id, args) == Message("Result", "", request_id, 0, "", <<>>, args)

\* send_message(info, message): one element of `sent`.
send_message(info, message) == [to |-> info, msg |-> message]

\* The event a step handles: a frame received on conn (kind "message", with the
\* decoded message's fields), the socket's close, or a call of Router::shutdown.
Received(conn, type, etype, id1, id2, uri, policy, invoke, args) ==
    [kind |-> "message", conn |-> conn, type |-> type, etype |-> etype,
     id1 |-> id1, id2 |-> id2, uri |-> uri, policy |-> policy, invoke |-> invoke,
     args |-> args, was |-> state[conn]]

Occurred(kind, conn) ==
    [kind |-> kind, conn |-> conn, type |-> "", etype |-> "", id1 |-> 0, id2 |-> 0,
     uri |-> <<>>, policy |-> "", invoke |-> "", args |-> 0,
     was |-> IF conn \in Conns THEN state[conn] ELSE ""]

\* ConnectionInfo.id
conn_id(c) == c

\* ------------------------------------------------------------------- client

\* The ConnectionInfo built in Connection::connect, with the Client's
\* max_session_id; `link` is the client's WebSocket, `handed` says whether
\* handle_welcome has sent the ConnectionInfo to connect(), `failed` whether
\* on_timeout has sent it an error, `poisoned` whether a panic has poisoned the
\* ConnectionInfo mutex.
ClientNew ==
    [connection_state |-> "Connecting",
     link |-> "open",
     handed |-> FALSE,
     failed |-> FALSE,
     poisoned |-> FALSE,
     max_session_id |-> 0,
     subscription_requests |-> <<>>,
     unsubscription_requests |-> <<>>,
     registration_requests |-> <<>>,
     unregistration_requests |-> <<>>,
     publish_requests |-> <<>>,
     call_requests |-> <<>>,
     subscriptions |-> {},
     registrations |-> {},
     shutdown_complete |-> FALSE]

\* The threads of the router that take mutexes: the handlers of the two
\* connections and the caller of Router::shutdown.
Threads == {"handler1", "handler2", "shutdown"}

\* The mutexes of the router: RouterInfo.realms, each Realm, each
\* connection's ConnectionInfo.
Mutexes == {"realms", "r1", "r2", "info1", "info2"}

\* No mutex is held and no thread is inside a handler: `owner` is the thread
\* that holds each mutex, `todo` what is left of the lock and unlock operations
\* of the handler each thread is running.
NoLocking ==
    [owner |-> [m \in Mutexes |-> "none"], todo |-> [t \in Threads |-> <<>>]]

\* Nothing has been encoded or decoded.
NoCodec == [stage |-> "idle"]

\* What the user of the client has seen: the requests issued (in order), the
\* values their futures resolved to, the values shutdown() futures resolved
\* to, the acknowledgements that opened or closed a subscription or
\* registration, the callbacks run by the latest step, and whether the router
\* answered the Hello with Abort.
NoUser ==
    [issued |-> <<>>, completed |-> <<>>, shutdowns |-> <<>>, acks |-> <<>>,
     invoked |-> <<>>, refused |-> FALSE]

\* ------------------------------------------------------------------- router

\* `out` when the latest step was no trie lookup.
NoOut ==
    [op |-> "none", uri |-> <<>>, items |-> <<>>, terminated |-> TRUE,
     found |-> FALSE, node |-> <<>>, pre |-> FALSE, idx |-> 0, policy |-> ""]

\* Router::new, add_realm for each name of rs, listen, and every connection
\* of Conns accepted: the closure passed to ws_listen has built its handler.
InitRouter(rs) ==
    /\ realms = rs
    /\ state = [c \in Conns |-> "Initializing"]
    /\ sock = [c \in Conns |-> "open"]
    /\ realm = [c \in Conns |-> ""]
    /\ subscribed_topics = [c \in Conns |-> <<>>]
    /\ registered_procedures = [c \in Conns |-> <<>>]
    /\ connections = [r \in RealmNames |-> <<>>]
    /\ subscriptions = [r \in RealmNames |-> NewSubscriptionTrie(r)]
    /\ subscription_ids_to_uris = [r \in RealmNames |-> <<>>]
    /\ registrations = [r \in RealmNames |-> NewRegistrationTrie(r)]
    /\ registration_ids_to_uris = [r \in RealmNames |-> <<>>]
    /\ active_calls = [r \in RealmNames |-> <<>>]
    /\ shutdown_phase = "none"
    /\ last = [kind |-> "init", conn |-> 0, type |-> "", etype |-> "", id1 |-> 0,
               id2 |-> 0, uri |-> <<>>, policy |-> "", invoke |-> "", args |-> 0,
               was |-> ""]
    /\ sent = <<>>
    /\ dispatched = <<>>
    /\ inserts = 0
    /\ out = NoOut
    /\ client = ClientNew
    /\ user = NoUser
    /\ locking = NoLocking
    /\ codec = NoCodec

connVars == <<state, sock, realm, subscribed_topics, registered_procedures>>
pubsubVars == <<subscriptions, subscription_ids_to_uris>>
rpcVars == <<registrations, registration_ids_to_uris, active_calls, dispatched>>

\* HashMap::insert
map_insert(map, k, v) == (k :> v) @@ map

\* HashMap::remove, the map part
map_remove(map, k) == [x \in DOMAIN map \ {k} |-> map[x]]

RECURSIVE remove_subscriptions(_, _, _, _)
\* The first loop of remove(): unsubscribe_with(..).ok() for every id of
\* subscribed_topics that subscription_ids_to_uris knows.
remove_subscriptions(trie, ids, map, c) ==
    IF ids = <<>> THEN trie
    ELSE IF Head(ids) \in DOMAIN map
         THEN remove_subscriptions(
                  unsubscribe_with(trie, map[Head(ids)].uri, conn_id(c),
                                   map[Head(ids)].is_prefix).trie,
                  Tail(ids), map, c)
         ELSE remove_subscriptions(trie, Tail(ids), map, c)

RECURSIVE remove_registrations(_, _, _, _)
\* The second loop of remove().
remove_registrations(trie, ids, map, c) ==
    IF ids = <<>> THEN trie
    ELSE IF Head(ids) \in DOMAIN map
         THEN remove_registrations(
                  unregister_with(trie, map[Head(ids)].uri, conn_id(c),
                                  map[Head(ids)].is_prefix).trie,
                  Tail(ids), map, c)
         ELSE remove_registrations(trie, Tail(ids), map, c)

\* ConnectionHandler::remove.  It leaves subscribed_topics, registered_procedures,
\* the two id maps and active_calls as they are.
remove(c) ==
    IF realm[c] = ""
    THEN UNCHANGED <<subscriptions, registrations, connections>>
    ELSE LET r == realm[c]
             Other(connection) == conn_id(connection) # conn_id(c)
         IN
         /\ subscriptions' = [subscriptions EXCEPT ![r] =
                remove_subscriptions(@, subscribed_topics[c],
                                     subscription_ids_to_uris[r], c)]
         /\ registrations' = [registrations EXCEPT ![r] =
                remove_registrations(@, registered_procedures[c],
                                     registration_ids_to_uris[r], c)]
         /\ connections' = [connections EXCEPT ![r] = SelectSeq(@, Other)]

\* terminate_connection: remove() and Ok(()); the socket is not closed.
terminate_connection(c) == remove(c)

\* on_message_error for the kinds that only terminate: InvalidState,
\* InvalidMessageType, JSONError, MsgPackError, UnexpectedMessage, Timeout.
on_message_error_terminate(c) ==
    /\ terminate_connection(c)
    /\ sent' = <<>>
    /\ UNCHANGED <<connVars, subscription_ids_to_uris, registration_ids_to_uris,
                   active_calls, dispatched>>

\* on_message_error dropping an ErrorKind::ErrorReason without an answer.
send_error_dropped(c, err_type, request_id, reason) == sent' = <<>>

\* on_message_error for ErrorKind::ErrorReason: send_error and nothing else.
send_error(c, err_type, request_id, reason) ==
    sent' = <<send_message(c, Error(err_type, request_id, reason, 0))>>

\* A frame can be delivered to the handler of c.
can_receive(c) == sock[c] = "open"

\* ---- handshake.rs

\* set_realm that takes every name for a realm of the router.
set_realm_finds_any(r) == TRUE

\* set_realm's test: the router has the realm.
set_realm_finds(r) == r \in realms

\* handle_hello without its assignment to info.state.
hello_state_unset(c) == state[c]

\* The state handle_hello leaves the connection in (before set_realm runs).
hello_state(c) == "Connected"

\* The Welcome handle_hello sends once set_realm succeeded.
hello_reply(c) == Welcome(conn_id(c))

\* on_message with Hello(realm, details): handle_hello, set_realm, and on
\* set_realm's HandshakeError the Abort and terminate_connection of
\* on_message_error.
handle_hello(c, r) ==
    /\ can_receive(c)
    /\ last' = Received(c, "Hello", "", 0, 0, <<r>>, "", "", 0)
    /\ state' = [state EXCEPT ![c] = hello_state(c)]
    /\ IF set_realm_finds(r)
       THEN /\ connections' = [connections EXCEPT ![r] = Append(@, c)]
            /\ realm' = [realm EXCEPT ![c] = r]
            /\ sent' = <<send_message(c, hello_reply(c))>>
            /\ UNCHANGED <<subscriptions, registrations>>
       ELSE /\ sent' = <<send_message(c, Abort("NoSuchRealm"))>>
            /\ terminate_connection(c)
            /\ UNCHANGED realm
    /\ UNCHANGED <<realms, client, user, locking, codec, sock, subscribed_topics, registered_procedures,
                   subscription_ids_to_uris, registration_ids_to_uris, active_calls,
                   shutdown_phase, dispatched, inserts, out>>

\* handle_goodbye answering with the reason of the router's own shutdown.
goodbye_reply_shutdown(c) == Goodbye("SystemShutdown")

\* The Goodbye handle_goodbye's Connected arm sends back.
goodbye_reply(c) == Goodbye("GoodbyeAndOut")

\* on_message with Goodbye(details, reason): handle_goodbye.
handle_goodbye(c) ==
    /\ can_receive(c)
    /\ last' = Received(c, "Goodbye", "", 0, 0, <<>>, "", "", 0)
    /\ CASE state[c] = "Initializing" ->
              /\ on_message_error_terminate(c)
              /\ UNCHANGED <<realms, client, user, locking, codec, shutdown_phase, inserts, out>>
         [] state[c] = "Connected" ->
              /\ remove(c)
              /\ sent' = <<send_message(c, goodbye_reply(c))>>
              /\ state' = [state EXCEPT ![c] = "Disconnected"]
              /\ sock' = [sock EXCEPT ![c] = "closing"]
              /\ UNCHANGED <<realms, client, user, locking, codec, realm, subscribed_topics, registered_procedures,
                             subscription_ids_to_uris, registration_ids_to_uris,
                             active_calls, shutdown_phase, dispatched, inserts, out>>
         [] state[c] = "ShuttingDown" ->
              /\ sent' = <<>>
              /\ state' = [state EXCEPT ![c] = "Disconnected"]
              /\ sock' = [sock EXCEPT ![c] = "closing"]
              /\ UNCHANGED <<realms, client, user, locking, codec, realm, subscribed_topics, registered_procedures,
                             connections, pubsubVars, rpcVars, shutdown_phase, inserts, out>>
         [] state[c] = "Disconnected" ->
              /\ sent' = <<>>
              /\ UNCHANGED <<realms, client, user, locking, codec, connVars, connections, pubsubVars, rpcVars,
                             shutdown_phase, inserts, out>>

\* ---- messaging.rs

\* handle_message's last arm (a message the router never handles: Welcome,
\* Abort, Subscribed, ... -> InvalidMessageType), or a frame parse_message
\* rejects (JSONError / MsgPackError): both end in terminate_connection.
handle_unexpected(c, what) ==
    /\ can_receive(c)
    /\ last' = Received(c, what, "", 0, 0, <<>>, "", "", 0)
    /\ on_message_error_terminate(c)
    /\ UNCHANGED <<realms, client, user, locking, codec, shutdown_phase, inserts, out>>

\* on_close's test for running terminate_connection.
on_close_cleans(c) == state[c] # "Disconnected"

\* Handler::on_close: the socket of c is gone (the peer closed it, the network
\* dropped, or the router's own close / shutdown completed).
on_close(c) ==
    /\ sock[c] # "closed"
    /\ last' = Occurred("close", c)
    /\ sock' = [sock EXCEPT ![c] = "closed"]
    /\ sent' = <<>>
    /\ IF on_close_cleans(c)
       THEN terminate_connection(c)
       ELSE UNCHANGED <<subscriptions, registrations, connections>>
    /\ UNCHANGED <<realms, client, user, locking, codec, state, realm, subscribed_topics, registered_procedures,
                   subscription_ids_to_uris, registration_ids_to_uris, active_calls,
                   shutdown_phase, dispatched, inserts, out>>

\* ---- mod.rs: Router::shutdown

\* The connections of all realms, realm by realm.
all_connections == connections["r1"] \o connections["r2"]

\* Router::shutdown up to its sleep: Goodbye(SystemShutdown) to every attached
\* connection, which becomes ShuttingDown.
shutdown_begin ==
    /\ shutdown_phase = "none"
    /\ shutdown_phase' = "sleeping"
    /\ last' = Occurred("shutdown", 0)
    /\ sent' = [i \in 1..Len(all_connections) |->
                  send_message(all_connections[i], Goodbye("SystemShutdown"))]
    /\ state' = [c \in Conns |->
                  IF c \in Range(all_connections) THEN "ShuttingDown" ELSE state[c]]
    /\ UNCHANGED <<realms, client, user, locking, codec, sock, realm, subscribed_topics, registered_procedures,
                   connections, pubsubVars, rpcVars, inserts, out>>

\* Router::shutdown after its sleep: sender.shutdown() stops the WebSocket, so
\* every socket still open is on its way to closed.
shutdown_end ==
    /\ shutdown_phase = "sleeping"
    /\ shutdown_phase' = "done"
    /\ last' = Occurred("shutdown", 0)
    /\ sent' = <<>>
    /\ sock' = [c \in Conns |-> IF sock[c] = "open" THEN "closing" ELSE sock[c]]
    /\ UNCHANGED <<realms, client, user, locking, codec, state, realm, subscribed_topics, registered_procedures,
                   connections, pubsubVars, rpcVars, inserts, out>>

\* ---- pubsub/mod.rs

not_attached(c) == realm[c] = ""

\* on_message with Subscribe(request_id, options, topic).
handle_subscribe(c, request_id, pattern_match, topic) ==
    /\ inserts < MaxInserts
    /\ can_receive(c)
    /\ last' = Received(c, "Subscribe", "", request_id, 0, topic, pattern_match, "", 0)
    /\ IF not_attached(c)
       THEN on_message_error_terminate(c)
       ELSE LET r == realm[c]
                s == subscribe_with(subscriptions[r], topic, c, pattern_match)
            IN
            /\ subscriptions' = [subscriptions EXCEPT ![r] = s.trie]
            /\ IF s.ok
               THEN /\ subscribed_topics' =
                          [subscribed_topics EXCEPT ![c] = Append(@, s.id)]
                    /\ subscription_ids_to_uris' =
                          [subscription_ids_to_uris EXCEPT ![r] =
                              map_insert(@, s.id,
                                  [uri |-> topic,
                                   is_prefix |-> (pattern_match = "Prefix")])]
                    /\ sent' = <<send_message(c, Subscribed(request_id, s.id))>>
               ELSE /\ send_error(c, "Subscribe", request_id, s.reason)
                    /\ UNCHANGED <<subscribed_topics, subscription_ids_to_uris>>
            /\ UNCHANGED <<state, sock, realm, registered_procedures, connections,
                           rpcVars>>
    /\ inserts' = inserts + 1
    /\ UNCHANGED <<realms, client, user, locking, codec, shutdown_phase, out>>

\* on_message with Unsubscribe(request_id, topic_id).
handle_unsubscribe(c, request_id, topic_id) ==
    /\ can_receive(c)
    /\ last' = Received(c, "Unsubscribe", "", request_id, topic_id, <<>>, "", "", 0)
    /\ IF not_attached(c)
       THEN on_message_error_terminate(c)
       ELSE LET r == realm[c]
                map == subscription_ids_to_uris[r]
            IN
            /\ IF topic_id \notin DOMAIN map
               THEN /\ send_error(c, "Unsubscribe", request_id, "NoSuchSubscription")
                    /\ UNCHANGED <<subscriptions, subscribed_topics>>
               ELSE LET u == unsubscribe_with(subscriptions[r], map[topic_id].uri,
                                              conn_id(c), map[topic_id].is_prefix)
                        Differs(id) == id # u.id
                    IN
                    IF u.ok
                    THEN /\ subscriptions' = [subscriptions EXCEPT ![r] = u.trie]
                         /\ subscribed_topics' =
                               [subscribed_topics EXCEPT ![c] = SelectSeq(@, Differs)]
                         /\ sent' = <<send_message(c, Unsubscribed(request_id))>>
                    ELSE /\ send_error(c, "Unsubscribe", request_id, u.reason)
                         /\ UNCHANGED <<subscriptions, subscribed_topics>>
            /\ UNCHANGED <<state, sock, realm, registered_procedures, connections,
                           subscription_ids_to_uris, rpcVars>>
    /\ UNCHANGED <<realms, client, user, locking, codec, shutdown_phase, inserts, out>>

\* handle_publish without the test on the subscriber's id.
publish_includes_all(subscriber, my_id) == TRUE

\* handle_publish's test for sending the Event to a yielded subscriber.
publish_includes(subscriber, my_id) == conn_id(subscriber) # my_id

\* A router that acknowledges every Publish.
should_acknowledge_always(acknowledge) == TRUE

\* PublishOptions::should_acknowledge
should_acknowledge(acknowledge) == acknowledge

RECURSIVE publish_events(_, _, _, _, _)
\* The body of handle_publish's for loop over the yielded items.
publish_events(items, my_id, publication_id, topic, args) ==
    IF items = <<>> THEN <<>>
    ELSE LET item == Head(items)
             rest == publish_events(Tail(items), my_id, publication_id, topic, args)
         IN
         IF publish_includes(item.subscriber, my_id)
         THEN <<send_message(item.subscriber,
                    Event(item.id, publication_id,
                          IF item.policy = "Strict" THEN <<>> ELSE topic, args))>>
              \o rest
         ELSE rest

\* on_message with Publish(request_id, options, topic, args, kwargs).
\* publication_id is the draw of random_id().
handle_publish(c, request_id, acknowledge, topic, args, publication_id) ==
    /\ can_receive(c)
    /\ last' = Received(c, "Publish", IF acknowledge THEN "ack" ELSE "",
                        request_id, publication_id, topic, "", "", args)
    /\ IF not_attached(c)
       THEN on_message_error_terminate(c)
       ELSE LET r == realm[c]
                items == filter_all(subscriptions[r], topic).items
            IN
            /\ sent' = publish_events(items, conn_id(c), publication_id, topic, args)
                       \o (IF should_acknowledge(acknowledge)
                           THEN <<send_message(c, Published(request_id, publication_id))>>
                           ELSE <<>>)
            /\ UNCHANGED <<connVars, connections, pubsubVars, rpcVars>>
    /\ UNCHANGED <<realms, client, user, locking, codec, shutdown_phase, inserts, out>>

\* ---- rpc/mod.rs

\* on_message with Register(request_id, options, procedure), for a run that
\* admits `limit` insertions into the tries.
handle_register_within(limit, c, request_id, pattern_match, invocation_policy, procedure) ==
    /\ inserts < limit
    /\ can_receive(c)
    /\ last' = Received(c, "Register", "", request_id, 0, procedure, pattern_match,
                        invocation_policy, 0)
    /\ IF not_attached(c)
       THEN on_message_error_terminate(c)
       ELSE LET r == realm[c]
                s == register_with(registrations[r], procedure, c, pattern_match,
                                   invocation_policy)
            IN
            /\ registrations' = [registrations EXCEPT ![r] = s.trie]
            /\ IF s.ok
               THEN /\ registered_procedures' =
                          [registered_procedures EXCEPT ![c] = Append(@, s.id)]
                    /\ registration_ids_to_uris' =
                          [registration_ids_to_uris EXCEPT ![r] =
                              map_insert(@, s.id,
                                  [uri |-> procedure,
                                   is_prefix |-> (pattern_match = "Prefix")])]
                    /\ sent' = <<send_message(c, Registered(request_id, s.id))>>
               ELSE /\ send_error(c, "Register", request_id, s.reason)
                    /\ UNCHANGED <<registered_procedures, registration_ids_to_uris>>
            /\ UNCHANGED <<state, sock, realm, subscribed_topics, connections,
                           pubsubVars, active_calls, dispatched>>
    /\ inserts' = inserts + 1
    /\ UNCHANGED <<realms, client, user, locking, codec, shutdown_phase, out>>

\* on_message with Register(request_id, options, procedure).
handle_register(c, request_id, pattern_match, invocation_policy, procedure) ==
    handle_register_within(MaxInserts, c, request_id, pattern_match,
                           invocation_policy, procedure)

\* on_message with Unregister(request_id, procedure_id).
handle_unregister(c, request_id, procedure_id) ==
    /\ can_receive(c)
    /\ last' = Received(c, "Unregister", "", request_id, procedure_id, <<>>, "", "", 0)
    /\ IF not_attached(c)
       THEN on_message_error_terminate(c)
       ELSE LET r == realm[c]
                map == registration_ids_to_uris[r]
            IN
            /\ IF procedure_id \notin DOMAIN map
               THEN /\ send_error(c, "Unregister", request_id, "NoSuchProcedure")
                    /\ UNCHANGED <<registrations, registered_procedures>>
               ELSE LET u == unregister_with(registrations[r], map[procedure_id].uri,
                                             conn_id(c), map[procedure_id].is_prefix)
                        Differs(id) == id # u.id
                    IN
                    IF u.ok
                    THEN /\ registrations' = [registrations EXCEPT ![r] = u.trie]
                         /\ registered_procedures' =
                               [registered_procedures EXCEPT ![c] = SelectSeq(@, Differs)]
                         /\ sent' = <<send_message(c, Unregistered(request_id))>>
                    ELSE /\ send_error(c, "Unregister", request_id, u.reason)
                         /\ UNCHANGED <<registrations, registered_procedures>>
            /\ UNCHANGED <<state, sock, realm, subscribed_topics, connections,
                           pubsubVars, registration_ids_to_uris, active_calls,
                           dispatched>>
    /\ UNCHANGED <<realms, client, user, locking, codec, shutdown_phase, inserts, out>>

\* on_message with Call(request_id, options, procedure, args, kwargs).
\* invocation_id is the draw of random_id() (fresh), rnd that of thread_rng().
handle_call(c, request_id, procedure, args, invocation_id, rnd) ==
    /\ can_receive(c)
    /\ invocation_id \notin DOMAIN dispatched
    /\ last' = Received(c, "Call", "", request_id, invocation_id, procedure, "", "", args)
    /\ IF not_attached(c)
       THEN on_message_error_terminate(c)
       ELSE LET r == realm[c]
                g == get_registrant_for(registrations[r], procedure, rnd)
            IN
            /\ registrations' = [registrations EXCEPT ![r] = g.trie]
            /\ IF g.found
               THEN /\ active_calls' =
                          [active_calls EXCEPT ![r] =
                              map_insert(@, invocation_id,
                                         [call_id |-> request_id, caller |-> c])]
                    /\ sent' = <<send_message(g.registrant,
                                    Invocation(invocation_id, g.id,
                                        IF g.policy = "Strict" THEN <<>> ELSE procedure,
                                        args))>>
                    /\ dispatched' =
                          map_insert(dispatched, invocation_id,
                                     [callee |-> g.registrant, caller |-> c,
                                      call_id |-> request_id, realm |-> r,
                                      node |-> g.node, pre |-> g.pre, idx |-> g.idx,
                                      replied |-> FALSE])
               ELSE /\ send_error(c, "Call", request_id, "NoSuchProcedure")
                    /\ UNCHANGED <<active_calls, dispatched>>
            /\ UNCHANGED <<connVars, connections, pubsubVars, registration_ids_to_uris>>
    /\ UNCHANGED <<realms, client, user, locking, codec, shutdown_phase, inserts, out>>

\* The entry of active_calls that handle_yield and handle_error take out for
\* the id the message carries; the sender of the message is not looked at.
active_call_for(c, id) ==
    IF id \in DOMAIN active_calls[realm[c]] THEN active_calls[realm[c]][id]
    ELSE [call_id |-> 0, caller |-> 0]

\* History only: the callee of invocation id has had an answer of its own
\* taken by the router.
reply_noted(c, id) ==
    [i \in DOMAIN dispatched |->
        IF i = id /\ dispatched[i].callee = c
        THEN [dispatched[i] EXCEPT !.replied = TRUE]
        ELSE dispatched[i]]

\* on_message with Yield(invocation_id, options, args, kwargs).
handle_yield(c, invocation_id, args) ==
    /\ can_receive(c)
    /\ last' = Received(c, "Yield", "", invocation_id, 0, <<>>, "", "", args)
    /\ IF not_attached(c)
       THEN on_message_error_terminate(c)
       ELSE LET a == active_call_for(c, invocation_id) IN
            IF a.caller # 0
            THEN /\ active_calls' = [active_calls EXCEPT ![realm[c]] =
                                        map_remove(@, invocation_id)]
                 /\ sent' = <<send_message(a.caller, Result(a.call_id, args))>>
                 /\ dispatched' = reply_noted(c, invocation_id)
                 /\ UNCHANGED <<connVars, connections, pubsubVars, registrations,
                                registration_ids_to_uris>>
            ELSE on_message_error_terminate(c)
    /\ UNCHANGED <<realms, client, user, locking, codec, shutdown_phase, inserts, out>>

\* on_message with Error(e_type, request_id, details, reason, args, kwargs).
handle_error(c, e_type, request_id, reason, args) ==
    /\ can_receive(c)
    /\ last' = Received(c, "Error", e_type, request_id, 0, <<>>, reason, "", args)
    /\ IF e_type # "Invocation" \/ not_attached(c)
       THEN on_message_error_terminate(c)
       ELSE LET a == active_call_for(c, request_id) IN
            IF a.caller # 0
            THEN /\ active_calls' = [active_calls EXCEPT ![realm[c]] =
                                        map_remove(@, request_id)]
                 /\ sent' = <<send_message(a.caller,
                                           Error("Call", a.call_id, reason, args))>>
                 /\ dispatched' = reply_noted(c, request_id)
                 /\ UNCHANGED <<connVars, connections, pubsubVars, registrations,
                                registration_ids_to_uris>>
            ELSE on_message_error_terminate(c)
    /\ UNCHANGED <<realms, client, user, locking, codec, shutdown_phase, inserts, out>>

\* ------------------------------------------------------- trie specifications
\* The tries taken alone, driven through their public operations on realm
\* "r1"'s managers: any sequence of insertions and removals, then a lookup.

\* The entries of a subscription trie, each named by its place.
SubEntries(trie) ==
    UNION {{[node |-> p, pre |-> FALSE, pos |-> i] : i \in 1..Len(trie[p].connections)}
           \cup {[node |-> p, pre |-> TRUE, pos |-> i] :
                    i \in 1..Len(trie[p].prefix_connections)} : p \in Paths}

\* The entries of a registration trie, each named by its place.
RegEntries(trie) ==
    UNION {{[node |-> p, pre |-> FALSE, pos |-> i] :
                    i \in 1..Len(trie[p].connections.procedures)}
           \cup {[node |-> p, pre |-> TRUE, pos |-> i] :
                    i \in 1..Len(trie[p].prefix_connections.procedures)} : p \in Paths}

InitTrie == InitRouter({"r1"})

trieFrame ==
    UNCHANGED <<realms, client, user, locking, codec, connVars, connections, subscription_ids_to_uris,
                registration_ids_to_uris, active_calls, shutdown_phase, last, sent,
                dispatched>>

\* A lookup ends a behaviour of the trie specifications.
trie_open == out.op = "none"

trie_subscribe(topic, subscriber, matching_policy) ==
    /\ trie_open /\ inserts < MaxInserts
    /\ inserts' = inserts + 1
    /\ subscriptions' = [subscriptions EXCEPT !["r1"] =
            subscribe_with(@, topic, subscriber, matching_policy).trie]
    /\ out' = NoOut
    /\ UNCHANGED registrations
    /\ trieFrame

trie_unsubscribe(topic, subscriber, is_prefix) ==
    /\ trie_open
    /\ UNCHANGED inserts
    /\ subscriptions' = [subscriptions EXCEPT !["r1"] =
            unsubscribe_with(@, topic, subscriber, is_prefix).trie]
    /\ out' = NoOut
    /\ UNCHANGED registrations
    /\ trieFrame

trie_filter(topic) ==
    /\ trie_open
    /\ UNCHANGED inserts
    /\ LET f == filter_all(subscriptions["r1"], topic) IN
       out' = [NoOut EXCEPT !.op = "filter", !.uri = topic, !.items = f.items,
                            !.terminated = f.terminated]
    /\ UNCHANGED <<subscriptions, registrations>>
    /\ trieFrame

NextFilter ==
    \/ \E topic \in URIs, c \in Conns, m \in MatchingPolicy : trie_subscribe(topic, c, m)
    \/ \E topic \in URIs, c \in Conns, b \in BOOLEAN : trie_unsubscribe(topic, c, b)
    \/ \E topic \in PlainURIs : trie_filter(topic)

SpecFilter == InitTrie /\ [][NextFilter]_vars

\* A pattern the specification allows under the policy: no empty segment
\* unless the policy is wildcard.
LegalPattern(topic, matching_policy) ==
    matching_policy = "Wildcard" \/ \A i \in 1..Len(topic) : topic[i] # ""

trie_register(topic, registrant, matching_policy, invocation_policy) ==
    /\ trie_open /\ inserts < MaxInserts
    /\ inserts' = inserts + 1
    /\ registrations' = [registrations EXCEPT !["r1"] =
            register_with(@, topic, registrant, matching_policy, invocation_policy).trie]
    /\ out' = NoOut
    /\ UNCHANGED subscriptions
    /\ trieFrame

trie_unregister(topic, registrant, is_prefix) ==
    /\ trie_open
    /\ UNCHANGED inserts
    /\ registrations' = [registrations EXCEPT !["r1"] =
            unregister_with(@, topic, registrant, is_prefix).trie]
    /\ out' = NoOut
    /\ UNCHANGED subscriptions
    /\ trieFrame

trie_lookup(procedure, rnd) ==
    /\ trie_open
    /\ UNCHANGED inserts
    /\ LET g == get_registrant_for(registrations["r1"], procedure, rnd) IN
       /\ registrations' = [registrations EXCEPT !["r1"] = g.trie]
       /\ out' = [NoOut EXCEPT !.op = "lookup", !.uri = procedure, !.found = g.found,
                               !.node = g.node, !.pre = g.pre, !.idx = g.idx,
                               !.policy = g.policy]
    /\ UNCHANGED subscriptions
    /\ trieFrame

NextLookup ==
    \/ \E topic \in URIs, c \in Conns, m \in MatchingPolicy, i \in {"Single", "RoundRobin"} :
          LegalPattern(topic, m) /\ trie_register(topic, c, m, i)
    \/ \E topic \in URIs, c \in Conns, b \in BOOLEAN : trie_unregister(topic, c, b)
    \/ \E topic \in PlainURIs, rnd \in {0} : trie_lookup(topic, rnd)

SpecLookup == InitTrie /\ [][NextLookup]_vars

\* Round robin: callees registered under RoundRobin, and runs of successive
\* calls that resolve to the same list with no register or unregister in
\* between.  out.items is the run so far: for each call the position chosen,
\* the length of the list and the cursor the call found.

rr_register(topic, registrant, matching_policy) ==
    /\ inserts < MaxInserts
    /\ inserts' = inserts + 1
    /\ registrations' = [registrations EXCEPT !["r1"] =
            register_with(@, topic, registrant, matching_policy, "RoundRobin").trie]
    /\ out' = NoOut
    /\ UNCHANGED subscriptions
    /\ trieFrame

rr_unregister(topic, registrant, is_prefix) ==
    /\ UNCHANGED inserts
    /\ registrations' = [registrations EXCEPT !["r1"] =
            unregister_with(@, topic, registrant, is_prefix).trie]
    /\ out' = NoOut
    /\ UNCHANGED subscriptions
    /\ trieFrame

rr_call(procedure) ==
    /\ Len(out.items) < MaxRun
    /\ UNCHANGED inserts
    /\ LET trie == registrations["r1"]
           g == get_registrant_for(trie, procedure, 0)
           coll == IF g.pre THEN trie[g.node].prefix_connections
                   ELSE trie[g.node].connections
           this == [idx |-> g.idx, n |-> Len(coll.procedures),
                    counter |-> coll.round_robin_counter]
           same == out.op = "call" /\ out.node = g.node /\ out.pre = g.pre
       IN
       /\ registrations' = [registrations EXCEPT !["r1"] = g.trie]
       /\ out' = IF g.found
                 THEN [NoOut EXCEPT !.op = "call", !.uri = procedure, !.found = TRUE,
                                    !.node = g.node, !.pre = g.pre, !.idx = g.idx,
                                    !.policy = g.policy,
                                    !.items = IF same THEN Append(out.items, this)
                                              ELSE <<this>>]
                 ELSE [NoOut EXCEPT !.op = "call", !.uri = procedure]
    /\ UNCHANGED subscriptions
    /\ trieFrame

NextRoundRobin ==
    \/ \E topic \in {<<"a">>, <<"a", "b">>}, c \in Conns, m \in {"Strict", "Prefix"} :
            rr_register(topic, c, m)
    \/ \E topic \in {<<"a">>, <<"a", "b">>}, c \in Conns, b \in BOOLEAN :
            rr_unregister(topic, c, b)
    \/ \E topic \in {<<"a">>, <<"a", "b">>} : rr_call(topic)

SpecRoundRobin == InitTrie /\ [][NextRoundRobin]_vars

\* ----------------------------------------------------- router specifications
\* The router with the one realm the wampire binary adds, its connections
\* taking any handler step in any order.  Each specification draws the
\* messages from a small alphabet.

InitOneRealm == InitRouter({"r1"})

\* The ids random_id() hands to handle_call, in the order it is asked.
InvIds == 1..MaxCalls
next_invocation_id == Cardinality(DOMAIN dispatched) + 1

\* A Hello that the bound on the realm's connection list still admits.
hello(c, r) == Len(connections[r]) < MaxAttach /\ handle_hello(c, r)

\* A Call that the bound on the number of invocations still admits.
call(c, request_id, procedure, rnd) ==
    /\ next_invocation_id \in InvIds
    /\ handle_call(c, request_id, procedure, 0, next_invocation_id, rnd)

\* Sessions: the handshake and the end of a session, with a Subscribe as the
\* message of an established session.
NextSession ==
    \/ \E c \in Conns, r \in RealmNames : hello(c, r)
    \/ \E c \in Conns : handle_goodbye(c)
    \/ \E c \in Conns, what \in {"Welcome", "Malformed"} : handle_unexpected(c, what)
    \/ \E c \in Conns : handle_subscribe(c, 11, "Strict", <<"a">>)
    \/ \E c \in Conns : on_close(c)
    \/ shutdown_begin
    \/ shutdown_end

SpecSession == InitOneRealm /\ [][NextSession]_vars

\* The ids the realm's subscription map knows.
known_subscriptions == DOMAIN subscription_ids_to_uris["r1"]

\* The patterns and topics of the publish and subscribe specification.
PubSubURIs == {<<"a">>, <<"a", "b">>, <<"", "b">>, <<"a", "">>}

\* Publish and subscribe: patterns of every policy, subscribers coming and
\* going.
NextPubSub ==
    \/ \E c \in Conns : hello(c, "r1")
    \/ \E c \in Conns, topic \in PubSubURIs, m \in MatchingPolicy :
            handle_subscribe(c, 11, m, topic)
    \/ \E c \in Conns, id \in known_subscriptions : handle_unsubscribe(c, 11, id)
    \/ \E c \in Conns, topic \in PubSubURIs, a \in BOOLEAN :
            handle_publish(c, 11, a, topic, 0, 21)

SpecPubSub == InitOneRealm /\ [][NextPubSub]_vars

\* The end of sessions that hold a subscription and a registration.
NextCleanup ==
    \/ \E c \in Conns : hello(c, "r1")
    \/ \E c \in Conns, m \in {"Strict", "Prefix"} : handle_subscribe(c, 11, m, <<"a">>)
    \/ \E c \in Conns : handle_register(c, 11, "Strict", "RoundRobin", <<"a">>)
    \/ \E c \in Conns : handle_publish(c, 11, FALSE, <<"a">>, 0, 21)
    \/ \E c \in Conns : handle_goodbye(c)
    \/ \E c \in Conns : handle_unexpected(c, "Welcome")
    \/ \E c \in Conns : on_close(c)
    \/ shutdown_begin
    \/ shutdown_end

SpecCleanup == InitOneRealm /\ [][NextCleanup]_vars

known_registrations == DOMAIN registration_ids_to_uris["r1"]

\* Registrations: one procedure, every invocation policy.
NextRegister ==
    \/ \E c \in Conns : hello(c, "r1")
    \/ \E c \in Conns, m \in {"Strict", "Prefix"}, i \in InvocationPolicy :
            handle_register(c, 11, m, i, <<"a">>)
    \/ \E c \in Conns, id \in known_registrations : handle_unregister(c, 11, id)
    \/ \E c \in Conns : on_close(c)

SpecRegister == InitOneRealm /\ [][NextRegister]_vars

\* Remote procedure calls: one procedure, the calls and their answers.
NextRpc ==
    \/ \E c \in Conns : hello(c, "r1")
    \/ \E c \in Conns : handle_register(c, 11, "Strict", "RoundRobin", <<"a">>)
    \/ \E c \in Conns : call(c, 10 + next_invocation_id, <<"a">>, 0)
    \/ \E c \in Conns, i \in InvIds : handle_yield(c, i, 0)
    \/ \E c \in Conns, i \in InvIds : handle_error(c, "Invocation", i, "Canceled", 0)
    \/ \E c \in Conns : on_close(c)

SpecRpc == InitOneRealm /\ [][NextRpc]_vars

\* Calls against registrations that come and go: two procedures, strict and
\* prefix registrations, calls to registered and unregistered URIs.
NextCall ==
    \/ \E c \in Conns : hello(c, "r1")
    \/ \E c \in Conns, m \in {"Strict", "Prefix"}, p \in {<<"a">>, <<"a", "b">>} :
            handle_register(c, 11, m, "Single", p)
    \/ \E c \in Conns, id \in known_registrations : handle_unregister(c, 11, id)
    \/ \E c \in Conns, p \in {<<"a", "b">>, <<"b">>} :
            call(c, 10 + next_invocation_id, p, 0)
    \/ \E c \in Conns : on_close(c)

SpecCall == InitOneRealm /\ [][NextCall]_vars

\* Subscriptions that come and go: two patterns, every matching policy,
\* unsubscribes and closed connections in between.
NextSubscribeIds ==
    \/ \E c \in Conns : hello(c, "r1")
    \/ \E c \in Conns, topic \in {<<"a">>, <<"a", "b">>}, m \in MatchingPolicy :
            handle_subscribe(c, 11, m, topic)
    \/ \E c \in Conns, id \in known_subscriptions : handle_unsubscribe(c, 11, id)
    \/ \E c \in Conns : on_close(c)

SpecSubscribeIds == InitOneRealm /\ [][NextSubscribeIds]_vars

\* The draws of random_id() for publications.
PublicationIds == {21, 22}

\* Publications with and without acknowledgement, to subscribers under the
\* strict and the prefix policy.
NextPublish ==
    \/ \E c \in Conns : hello(c, "r1")
    \/ \E c \in Conns, m \in {"Strict", "Prefix"} : handle_subscribe(c, 11, m, <<"a">>)
    \/ \E c \in Conns, request_id \in {12, 13}, a \in BOOLEAN, id \in PublicationIds :
            handle_publish(c, request_id, a, <<"a">>, 0, id)

SpecPublish == InitOneRealm /\ [][NextPublish]_vars

\* A router to which add_realm has added both realms.
InitTwoRealms == InitRouter(RealmNames)

\* Two realms side by side: subscriptions, registrations, publications and
\* calls for one URI in each of them.
NextRealms ==
    \/ \E c \in Conns, r \in RealmNames : hello(c, r)
    \/ \E c \in Conns : handle_subscribe(c, 11, "Strict", <<"a">>)
    \/ \E c \in Conns : handle_register(c, 12, "Strict", "RoundRobin", <<"a">>)
    \/ \E c \in Conns : handle_publish(c, 13, FALSE, <<"a">>, 0, 21)
    \/ \E c \in Conns : call(c, 13 + next_invocation_id, <<"a">>, 0)
    \/ \E c \in Conns : on_close(c)

SpecRealms == InitTwoRealms /\ [][NextRealms]_vars

\* Requests of several kinds on one connection while its calls are with a
\* callee: registrations, subscriptions, calls that find a callee or none,
\* and the callee's answers.
NextOrder ==
    \/ \E c \in Conns : hello(c, "r1")
    \/ \E c \in Conns : handle_register(c, 5, "Strict", "RoundRobin", <<"a">>)
    \/ \E c \in Conns : handle_subscribe(c, 6, "Strict", <<"a">>)
    \/ \E c \in Conns, p \in {<<"a">>, <<"b">>} : call(c, 10 + next_invocation_id, p, 0)
    \/ \E c \in Conns, i \in InvIds : handle_yield(c, i, 0)
    \/ \E c \in Conns, i \in InvIds : handle_error(c, "Invocation", i, "Canceled", 0)

SpecOrder == InitOneRealm /\ [][NextOrder]_vars

\* Two connections that share a subscription node and a registration node:
\* either of them unsubscribes, unregisters, says Goodbye or is closed while
\* publications and calls go on.
NextFrame ==
    \/ \E c \in Conns : hello(c, "r1")
    \/ \E c \in Conns, m \in {"Strict", "Prefix"} : handle_subscribe(c, 11, m, <<"a">>)
    \/ \E c \in Conns : handle_register(c, 12, "Strict", "RoundRobin", <<"a">>)
    \/ \E c \in Conns, id \in known_subscriptions : handle_unsubscribe(c, 13, id)
    \/ \E c \in Conns, id \in known_registrations : handle_unregister(c, 14, id)
    \/ \E c \in Conns : handle_publish(c, 15, FALSE, <<"a">>, 0, 21)
    \/ \E c \in Conns : call(c, 15 + next_invocation_id, <<"a">>, 0)
    \/ \E c \in Conns : handle_goodbye(c)
    \/ \E c \in Conns : on_close(c)

SpecFrame == InitOneRealm /\ [][NextFrame]_vars

\* Callees of one RoundRobin procedure that come and go between the calls.
NextRotation ==
    \/ \E c \in Conns : hello(c, "r1")
    \/ \E c \in Conns :
            handle_register_within(MaxRegisters, c, 11, "Strict", "RoundRobin", <<"a">>)
    \/ \E c \in Conns, id \in known_registrations : handle_unregister(c, 12, id)
    \/ \E c \in Conns : call(c, 12 + next_invocation_id, <<"a">>, 0)

SpecRotation == InitOneRealm /\ [][NextRotation]_vars

\* ---------------------------------------------------------------- client.rs

\* The router's variables; the client is modelled against a router that is
\* free to send it any message.
routerVars ==
    <<realms, state, sock, realm, subscribed_topics, registered_procedures,
      connections, subscriptions, subscription_ids_to_uris, registrations,
      registration_ids_to_uris, active_calls, shutdown_phase, dispatched, inserts, out,
      locking, codec>>

\* The ids the router hands out for subscriptions and registrations; they are
\* random numbers and can equal a request id of the client.
RouterIds == {2, 7}

\* The invocation ids the router puts into Invocation messages.
InvocationIds == {5}

\* What a registration's user callback returns.
CallbackResults == {"Ok", "Err"}

\* A step of the client: the user's call or the handler's event, what was in
\* it, and what the user callback returns if the step runs one.
ClientEvent(type, etype, id1, id2, result) ==
    [kind |-> "client", conn |-> 0, type |-> type, etype |-> etype, id1 |-> id1,
     id2 |-> id2, uri |-> <<>>, policy |-> "", invoke |-> "", args |-> 0,
     was |-> client.connection_state, result |-> result]

ClientStep(type, etype, id1, id2) == ClientEvent(type, etype, id1, id2, "")

\* ConnectionInfo::send_message: the ws Sender takes the frame until the
\* event loop is gone.
client_send_ok == client.link # "gone"

\* oneshot Sender::send(value) on the Complete of request id: the request's
\* future resolves to value.
promise_send(u, id, value) ==
    [u EXCEPT !.completed =
        map_insert(@, id, (IF id \in DOMAIN @ THEN @[id] ELSE <<>>) \o <<value>>)]

RECURSIVE promise_send_all(_, _, _)
\* promise.send(value) for every request of a set.
promise_send_all(u, ids, value) ==
    IF ids = {} THEN u
    ELSE LET id == CHOOSE x \in ids : TRUE IN
         promise_send_all(promise_send(u, id, value), ids \ {id}, value)

\* A Client::get_next_session_id that hands out the same number again.
get_next_session_id_stuck == IF client.max_session_id = 0 THEN 1 ELSE client.max_session_id

\* Client::get_next_session_id
get_next_session_id == client.max_session_id + 1

\* The user holds the Client and its mutex is sound.
client_usable == client.handed /\ ~client.failed /\ ~client.poisoned

\* The client operations that record a Complete under the new request id and
\* then send the request, unwrapping the result of the send: subscribe,
\* register, call, publish_and_acknowledge.
client_request(op, table, value, etype) ==
    LET request_id == get_next_session_id IN
    /\ client_usable
    /\ request_id <= MaxRequests
    /\ last' = ClientStep(op, etype, request_id, 0)
    /\ IF client_send_ok
       THEN /\ client' = [client EXCEPT !.max_session_id = request_id,
                                        ![table] = map_insert(@, request_id, value)]
            /\ sent' = <<send_message(0, Message(op, etype, request_id, 0, "", <<>>, 0))>>
            /\ user' = [user EXCEPT !.issued = Append(@, request_id), !.invoked = <<>>]
       ELSE /\ client' = [client EXCEPT !.max_session_id = request_id,
                                        ![table] = map_insert(@, request_id, value),
                                        !.poisoned = TRUE]
            /\ sent' = <<>>
            /\ user' = [user EXCEPT !.invoked = <<>>]
    /\ UNCHANGED routerVars

client_subscribe == client_request("Subscribe", "subscription_requests", 0, "")
client_register == client_request("Register", "registration_requests", 0, "")
client_call == client_request("Call", "call_requests", 0, "")
publish_and_acknowledge == client_request("Publish", "publish_requests", 0, "ack")

\* Client::unsubscribe and Client::unregister: the request is sent (and the
\* result of the send unwrapped) before the Complete is recorded.
client_release(op, table, id) ==
    LET request_id == get_next_session_id IN
    /\ client_usable
    /\ request_id <= MaxRequests
    /\ last' = ClientStep(op, "", request_id, id)
    /\ IF client_send_ok
       THEN /\ client' = [client EXCEPT !.max_session_id = request_id,
                                        ![table] = map_insert(@, request_id, id)]
            /\ sent' = <<send_message(0, Message(op, "", request_id, id, "", <<>>, 0))>>
            /\ user' = [user EXCEPT !.issued = Append(@, request_id), !.invoked = <<>>]
       ELSE /\ client' = [client EXCEPT !.max_session_id = request_id,
                                        !.poisoned = TRUE]
            /\ sent' = <<>>
            /\ user' = [user EXCEPT !.invoked = <<>>]
    /\ UNCHANGED routerVars

client_unsubscribe(id) == client_release("Unsubscribe", "unsubscription_requests", id)
client_unregister(id) == client_release("Unregister", "unregistration_requests", id)

\* Client::publish: no Complete, and the result of the send is returned.
client_publish ==
    LET request_id == get_next_session_id IN
    /\ client_usable
    /\ request_id <= MaxRequests
    /\ last' = ClientStep("Publish", "", request_id, 0)
    /\ client' = [client EXCEPT !.max_session_id = request_id]
    /\ IF client_send_ok
       THEN /\ sent' = <<send_message(0, Message("Publish", "", request_id, 0, "", <<>>, 0))>>
            /\ user' = [user EXCEPT !.issued = Append(@, request_id), !.invoked = <<>>]
       ELSE /\ sent' = <<>>
            /\ user' = [user EXCEPT !.invoked = <<>>]
    /\ UNCHANGED routerVars

\* A shutdown() that reports success whatever the state.
shutdown_refused_as_done == "Ok"

\* shutdown() from any state but Connected: an error at once.
shutdown_refused == "InternalError"

\* Client::shutdown
client_shutdown ==
    /\ client_usable
    /\ Len(user.shutdowns) < MaxRequests
    /\ last' = ClientStep("shutdown", "", 0, 0)
    /\ IF client.connection_state = "Connected"
       THEN IF client_send_ok
            THEN /\ client' = [client EXCEPT !.connection_state = "ShuttingDown",
                                             !.shutdown_complete = TRUE]
                 /\ sent' = <<send_message(0, Goodbye("SystemShutdown"))>>
                 /\ user' = [user EXCEPT !.invoked = <<>>]
            ELSE /\ client' = [client EXCEPT !.connection_state = "ShuttingDown",
                                             !.shutdown_complete = TRUE,
                                             !.poisoned = TRUE]
                 /\ sent' = <<>>
                 /\ user' = [user EXCEPT !.invoked = <<>>]
       ELSE /\ sent' = <<>>
            /\ user' = [user EXCEPT !.shutdowns = Append(@, shutdown_refused),
                                    !.invoked = <<>>]
            /\ UNCHANGED client
    /\ UNCHANGED routerVars

\* The outcome of handling one message: the ConnectionInfo, the user's view,
\* the messages sent, and handle_message's return value.
Handled(c, u, s, go_on) == [c |-> c, u |-> u, s |-> s, go_on |-> go_on]

\* A table's remove(request_id) followed by promise.send(value); a warning
\* and nothing else when the table has no such request.
complete_request(table, request_id, value) ==
    IF request_id \in DOMAIN client[table]
    THEN Handled([client EXCEPT ![table] = map_remove(@, request_id)],
                 promise_send(user, request_id, value), <<>>, TRUE)
    ELSE Handled(client, user, <<>>, TRUE)

\* handle_subscribed
handle_subscribed(request_id, subscription_id) ==
    IF request_id \in DOMAIN client.subscription_requests
    THEN Handled([client EXCEPT
                     !.subscription_requests = map_remove(@, request_id),
                     !.subscriptions = @ \cup {subscription_id}],
                 [promise_send(user, request_id, "Ok") EXCEPT
                     !.acks = Append(@, [type |-> "Subscribed", id |-> subscription_id])],
                 <<>>, TRUE)
    ELSE Handled(client, user, <<>>, TRUE)

\* handle_unsubscribed and handle_unsubscribe_error: the second remove is made
\* on unsubscription_requests, with the subscription id as its key; a Complete
\* it removes is dropped, and the future of that request resolves to
\* InternalError.
handle_unsubscribed(request_id, value) ==
    IF request_id \in DOMAIN client.unsubscription_requests
    THEN LET subscription_id == client.unsubscription_requests[request_id]
             rest == map_remove(client.unsubscription_requests, request_id)
             u == promise_send(user, request_id, value)
         IN
         Handled([client EXCEPT
                     !.unsubscription_requests = map_remove(rest, subscription_id)],
                 [(IF subscription_id \in DOMAIN rest
                   THEN promise_send(u, subscription_id, "InternalError")
                   ELSE u) EXCEPT
                     !.acks = IF value = "Ok"
                              THEN Append(@, [type |-> "Unsubscribed",
                                              id |-> subscription_id])
                              ELSE @],
                 <<>>, TRUE)
    ELSE Handled(client, user, <<>>, TRUE)

\* handle_registered
handle_registered(request_id, registration_id) ==
    IF request_id \in DOMAIN client.registration_requests
    THEN Handled([client EXCEPT
                     !.registration_requests = map_remove(@, request_id),
                     !.registrations = @ \cup {registration_id}],
                 [promise_send(user, request_id, "Ok") EXCEPT
                     !.acks = Append(@, [type |-> "Registered", id |-> registration_id])],
                 <<>>, TRUE)
    ELSE Handled(client, user, <<>>, TRUE)

\* handle_unregistered
handle_unregistered(request_id) ==
    IF request_id \in DOMAIN client.unregistration_requests
    THEN LET registration_id == client.unregistration_requests[request_id] IN
         Handled([client EXCEPT
                     !.unregistration_requests = map_remove(@, request_id),
                     !.registrations = @ \ {registration_id}],
                 [promise_send(user, request_id, "Ok") EXCEPT
                     !.acks = Append(@, [type |-> "Unregistered", id |-> registration_id])],
                 <<>>, TRUE)
    ELSE Handled(client, user, <<>>, TRUE)

\* handle_event: the subscription's callback is run.
handle_event(subscription_id) ==
    IF subscription_id \in client.subscriptions
    THEN Handled(client,
                 [user EXCEPT !.invoked = <<[table |-> "subscriptions",
                                            id |-> subscription_id]>>],
                 <<>>, TRUE)
    ELSE Handled(client, [user EXCEPT !.invoked = <<>>], <<>>, TRUE)

\* A handle_invocation that answers under the registration id.
invocation_reply_to_registration(request_id, registration_id, result) ==
    IF result = "Ok" THEN Message("Yield", "", registration_id, 0, "", <<>>, 0)
    ELSE Message("Error", "Invocation", registration_id, 0, "Canceled", <<>>, 0)

\* The message handle_invocation builds from what the callback returned.
invocation_reply(request_id, registration_id, result) ==
    IF result = "Ok" THEN Message("Yield", "", request_id, 0, "", <<>>, 0)
    ELSE Message("Error", "Invocation", request_id, 0, "Canceled", <<>>, 0)

\* handle_invocation: the callback is run and its result sent; the result of
\* the send is ignored.
handle_invocation(request_id, registration_id, result) ==
    IF registration_id \in client.registrations
    THEN Handled(client,
                 [user EXCEPT !.invoked = <<[table |-> "registrations",
                                            id |-> registration_id]>>],
                 <<send_message(0, invocation_reply(request_id, registration_id, result))>>,
                 TRUE)
    ELSE Handled(client, [user EXCEPT !.invoked = <<>>], <<>>, TRUE)

\* handle_error: the table of the error's type; an Error(Invocation) is only
\* warned about.
client_handle_error(e_type, request_id, reason) ==
    CASE e_type = "Subscribe" -> complete_request("subscription_requests", request_id, reason)
      [] e_type = "Unsubscribe" -> handle_unsubscribed(request_id, reason)
      [] e_type = "Publish" -> complete_request("publish_requests", request_id, reason)
      [] e_type = "Register" -> complete_request("registration_requests", request_id, reason)
      [] e_type = "Unregister" ->
            complete_request("unregistration_requests", request_id, reason)
      [] e_type = "Call" -> complete_request("call_requests", request_id, reason)
      [] OTHER -> Handled(client, user, <<>>, TRUE)

\* handle_message in state Connected.  m.id1 is the first id of the message,
\* m.id2 its second; result is what a callback returns.
handle_connected(m, result) ==
    CASE m.type = "Subscribed" -> handle_subscribed(m.id1, m.id2)
      [] m.type = "Unsubscribed" -> handle_unsubscribed(m.id1, "Ok")
      [] m.type = "Event" -> handle_event(m.id1)
      [] m.type = "Published" -> complete_request("publish_requests", m.id1, "Ok")
      [] m.type = "Registered" -> handle_registered(m.id1, m.id2)
      [] m.type = "Unregistered" -> handle_unregistered(m.id1)
      [] m.type = "Invocation" -> handle_invocation(m.id1, m.id2, result)
      [] m.type = "Result" -> complete_request("call_requests", m.id1, "Ok")
      [] m.type = "Error" -> client_handle_error(m.etype, m.id1, m.reason)
      [] m.type = "Goodbye" ->
            Handled([client EXCEPT !.connection_state = "ShuttingDown"], user,
                    <<send_message(0, Goodbye("GoodbyeAndOut"))>>, FALSE)
      [] OTHER -> Handled(client, user, <<>>, TRUE)

\* ConnectionHandler::handle_message
client_handle_message(m, result) ==
    CASE client.connection_state = "Connecting" ->
            IF m.type = "Welcome"
            THEN Handled([client EXCEPT !.connection_state = "Connected",
                                        !.handed = ~client.failed], user, <<>>, TRUE)
            ELSE IF m.type = "Abort"
            THEN Handled([client EXCEPT !.connection_state = "ShuttingDown"],
                         [user EXCEPT !.refused = TRUE], <<>>, FALSE)
            ELSE Handled(client, user, <<>>, FALSE)
      [] client.connection_state = "Connected" -> handle_connected(m, result)
      [] client.connection_state = "ShuttingDown" ->
            IF m.type = "Goodbye" /\ client.shutdown_complete
            THEN Handled([client EXCEPT !.shutdown_complete = FALSE],
                         [user EXCEPT !.shutdowns = Append(@, "Ok")], <<>>, FALSE)
            ELSE Handled(client, user, <<>>, FALSE)
      [] client.connection_state = "Disconnected" ->
            Handled(client, user, <<>>, FALSE)

\* Handler::on_message with a frame that decodes to m: handle_message, and
\* sender.shutdown() when it returns false.
client_on_message(m, result) ==
    LET h == client_handle_message(m, result)
        ran == client.connection_state = "Connected" /\ m.type \in {"Event", "Invocation"}
        \* handle_welcome's send(..).unwrap() with connect() gone: the thread of
        \* the event loop panics
        lost == client.connection_state = "Connecting" /\ m.type = "Welcome"
                /\ client.failed
    IN
    /\ client.link \in {"open", "closing"}
    /\ ~client.poisoned
    /\ last' = ClientEvent(m.type, m.etype, m.id1, m.id2, result)
    /\ client' = IF lost THEN [h.c EXCEPT !.link = "gone"]
                  ELSE IF h.go_on \/ h.c.link # "open" THEN h.c
                  ELSE [h.c EXCEPT !.link = "closing"]
    /\ user' = IF ran THEN h.u ELSE [h.u EXCEPT !.invoked = <<>>]
    /\ sent' = h.s
    /\ UNCHANGED routerVars

\* cancel_future! that drains the table and completes nothing.
cancel_future_dropped(u, dict) == u

\* cancel_future! / cancel_future_tuple!: every Complete of the table is sent
\* Err(NetworkFailure) and the table is drained.
cancel_future(u, dict) == promise_send_all(u, DOMAIN dict, "NetworkFailure")

\* Handler::on_close
client_on_close ==
    LET u1 == cancel_future(user, client.subscription_requests)
        u2 == cancel_future(u1, client.unsubscription_requests)
        u3 == cancel_future(u2, client.registration_requests)
        u4 == cancel_future(u3, client.unregistration_requests)
        u5 == cancel_future(u4, client.publish_requests)
        u6 == cancel_future(u5, client.call_requests)
    IN
    /\ client.link \in {"open", "closing"}
    /\ ~client.poisoned
    /\ last' = ClientStep("close", "", 0, 0)
    /\ client' = [client EXCEPT !.link = "closed",
                                !.connection_state = "Disconnected",
                                !.subscription_requests = <<>>,
                                !.unsubscription_requests = <<>>,
                                !.registration_requests = <<>>,
                                !.unregistration_requests = <<>>,
                                !.publish_requests = <<>>,
                                !.call_requests = <<>>,
                                !.shutdown_complete = FALSE]
    /\ user' = [u6 EXCEPT !.shutdowns = IF client.shutdown_complete
                                         THEN Append(@, "Ok") ELSE @,
                          !.invoked = <<>>]
    /\ sent' = <<>>
    /\ UNCHANGED routerVars

\* connect() returns once the connection is closed: the event loop ends and
\* the ws Sender has nothing left to send to.
client_loop_ends ==
    /\ client.link = "closed"
    /\ last' = ClientStep("loop ends", "", 0, 0)
    /\ client' = [client EXCEPT !.link = "gone"]
    /\ user' = [user EXCEPT !.invoked = <<>>]
    /\ sent' = <<>>
    /\ UNCHANGED routerVars

\* Handler::on_timeout with the CONNECTION_TIMEOUT token: a client still
\* Connecting shuts the socket down and sends Err(Timeout) to connect().
client_on_timeout ==
    /\ client.link \in {"open", "closing"}
    /\ ~client.poisoned
    /\ ~client.failed
    /\ last' = ClientStep("timeout", "", 0, 0)
    /\ client' = IF client.connection_state = "Connecting"
                  THEN [client EXCEPT !.link = "closing", !.failed = TRUE]
                  ELSE client
    /\ user' = [user EXCEPT !.invoked = <<>>]
    /\ sent' = <<>>
    /\ UNCHANGED routerVars

\* What Connection::connect gives its caller at rx.recv().unwrap()?: the
\* Client once handle_welcome has sent the ConnectionInfo, the error on_timeout
\* has sent; a panic of the unwrap once the thread of the event loop has ended
\* (ws connect(..) returned Ok, nothing was sent, every Sender is dropped);
\* until then it is blocked in recv.
connect_returns ==
    IF client.handed THEN "Client"
    ELSE IF client.failed THEN "Err"
    ELSE IF client.link = "gone" THEN "panic"
    ELSE "blocked"

\* A client whose WebSocket has just opened: on_open has sent Hello.
InitClient == InitRouter({"r1"})

\* The request ids the router has seen so far.
RequestIds == 1..client.max_session_id

\* The requests waiting in a table of the client.
Pending(table) == DOMAIN client[table]

\* What a router sends for the requests it has been sent: the acknowledgement
\* or the Error of the request's kind while the request is waiting, and an
\* Unsubscribed or a Result once more for any request.
Acknowledgements ==
    {Subscribed(q, 7) : q \in Pending("subscription_requests")}
    \cup {Error("Subscribe", q, "Canceled", 0) : q \in Pending("subscription_requests")}
    \cup {Registered(q, 7) : q \in Pending("registration_requests")}
    \cup {Error("Register", q, "Canceled", 0) : q \in Pending("registration_requests")}
    \cup {Unregistered(q) : q \in Pending("unregistration_requests")}
    \cup {Error("Unregister", q, "Canceled", 0) : q \in Pending("unregistration_requests")}
    \cup {Published(q, 21) : q \in Pending("publish_requests")}
    \cup {Error("Publish", q, "Canceled", 0) : q \in Pending("publish_requests")}
    \cup {Error("Call", q, "Canceled", 0) : q \in Pending("call_requests")}
    \cup {Error("Unsubscribe", q, "Canceled", 0) : q \in Pending("unsubscription_requests")}
    \cup {Unsubscribed(q) : q \in RequestIds}
    \cup {Result(q, 0) : q \in RequestIds}

\* Requests of every kind, one after the other, and the loss of the
\* connection.
NextClientIds ==
    \/ client_on_message(Welcome(1), "Ok")
    \/ client_subscribe
    \/ client_register
    \/ client_call
    \/ publish_and_acknowledge
    \/ client_publish
    \/ \E id \in RouterIds : client_unsubscribe(id)
    \/ \E id \in RouterIds : client_unregister(id)
    \/ client_on_close
    \/ client_loop_ends

SpecClientIds == InitClient /\ [][NextClientIds]_vars

\* Requests that have a future, their acknowledgements and errors, and the
\* loss of the connection.
NextClientRequests ==
    \/ client_on_message(Welcome(1), "Ok")
    \/ client_subscribe
    \/ client_register
    \/ client_call
    \/ publish_and_acknowledge
    \/ \E id \in RouterIds : client_unsubscribe(id)
    \/ \E id \in RouterIds : client_unregister(id)
    \/ \E m \in Acknowledgements : client_on_message(m, "Ok")
    \/ client_on_close
    \/ client_loop_ends

SpecClientRequests == InitClient /\ [][NextClientRequests]_vars

\* Subscriptions and registrations of the client from their acknowledgement
\* to their end, with the Events and Invocations the router sends for them.
NextClientCallbacks ==
    \/ client_on_message(Welcome(1), "Ok")
    \/ client_subscribe
    \/ client_register
    \/ \E id \in RouterIds : client_unsubscribe(id)
    \/ \E id \in RouterIds : client_unregister(id)
    \/ \E q \in Pending("subscription_requests"), id \in RouterIds :
            client_on_message(Subscribed(q, id), "Ok")
    \/ \E q \in Pending("registration_requests"), id \in RouterIds :
            client_on_message(Registered(q, id), "Ok")
    \/ \E q \in Pending("unsubscription_requests") :
            client_on_message(Unsubscribed(q), "Ok")
    \/ \E q \in Pending("unregistration_requests") :
            client_on_message(Unregistered(q), "Ok")
    \/ \E id \in RouterIds : client_on_message(Event(id, 21, <<>>, 0), "Ok")
    \/ \E i \in InvocationIds, id \in RouterIds, result \in CallbackResults :
            client_on_message(Invocation(i, id, <<>>, 0), result)
    \/ client_on_close

SpecClientCallbacks == InitClient /\ [][NextClientCallbacks]_vars

\* The end of a client session: shutdown() in every state, the router's
\* Goodbye, Abort and other messages, and the loss of the connection.
NextClientShutdown ==
    \/ \E m \in {Welcome(1), Abort("NoSuchRealm"), Goodbye("GoodbyeAndOut"),
                  Goodbye("SystemShutdown"), Event(7, 21, <<>>, 0)} :
            client_on_message(m, "Ok")
    \/ client_shutdown
    \/ client_call
    \/ client_on_close
    \/ client_loop_ends

SpecClientShutdown == InitClient /\ [][NextClientShutdown]_vars

\* connect() and the handshake: the router's Welcome or Abort, the timeout
\* of the handshake, and the session that may follow.
NextClientConnect ==
    \/ \E m \in {Welcome(1), Abort("NoSuchRealm"), Goodbye("SystemShutdown")} :
            client_on_message(m, "Ok")
    \/ client_on_timeout
    \/ client_subscribe
    \/ client_shutdown
    \/ client_on_close
    \/ client_loop_ends

SpecClientConnect == InitClient /\ [][NextClientConnect]_vars

\* -------------------------------------------------------------------- locks
\* The mutexes the router's handlers take, in the order the code takes and
\* drops them.  A handler is the sequence of its lock and unlock operations;
\* std::sync::Mutex is not reentrant, so a lock operation waits while any
\* thread, the same one included, holds the mutex.

\* Everything but the mutexes.
lockFrame ==
    UNCHANGED <<realms, state, sock, realm, subscribed_topics, registered_procedures,
                connections, subscriptions, subscription_ids_to_uris, registrations,
                registration_ids_to_uris, active_calls, shutdown_phase, last, sent,
                dispatched, inserts, out, client, user, codec>>

\* The Mutex<ConnectionInfo> of connection c.
info(c) == IF c = 1 THEN "info1" ELSE "info2"

\* The connection whose messages a handler thread handles.
handled_by(t) == IF t = "handler1" THEN 1 ELSE 2

lock(m) == [op |-> "lock", m |-> m]
unlock(m) == [op |-> "unlock", m |-> m]

\* `m.lock().unwrap().field`, or a guard that lives to the end of a block in
\* which no other mutex is taken.
guard(m) == <<lock(m), unlock(m)>>

\* The connections of a list, in the order of the list.
RECURSIVE listed(_)
listed(L) ==
    IF L = {} THEN <<>>
    ELSE LET c == CHOOSE x \in L : \A y \in L : x <= y IN <<c>> \o listed(L \ {c})

\* A loop over a list of connections that takes each one's mutex for get_id().
RECURSIVE each_id(_)
each_id(ds) == IF ds = <<>> THEN <<>> ELSE guard(info(Head(ds))) \o each_id(Tail(ds))

\* messaging.rs send_message(info, message)
locks_send_message(d) == guard(info(d))

\* set_realm: the guard of the realm map lives through the if-let, the
\* realm's guard through the inner block.
locks_set_realm(r) == <<lock("realms"), lock(r), unlock(r), unlock("realms")>>

\* handle_hello
locks_handle_hello(c, r) ==
    guard(info(c)) \o locks_set_realm(r) \o locks_send_message(c)

\* ConnectionHandler::remove with the connections of L in the lists it walks:
\* the realm's guard lives to the end; under it the trace of the own id, for
\* an entry of subscribed_topics or registered_procedures get_id() of the own
\* info and the retain over a list, the own id again and the retain over
\* realm.connections.  Every further entry repeats the locks of the first.
locks_remove(c, r, L) ==
    <<lock(r)>> \o guard(info(c))
        \o guard(info(c)) \o each_id(listed(L))
        \o guard(info(c)) \o each_id(listed(L))
        \o <<unlock(r)>>

\* handle_goodbye in state Connected: the state is read, remove(), the reply,
\* and the state is set and the socket closed under the own info.
locks_handle_goodbye(c, r, L) ==
    guard(info(c)) \o locks_remove(c, r, L) \o locks_send_message(c) \o guard(info(c))

\* on_close: the state is read, then terminate_connection.
locks_on_close(c, r, L) == guard(info(c)) \o locks_remove(c, r, L)

\* The body of the loop of handle_publish for the subscriber d as it would be
\* with the guard of the condition alive in the body.
event_to_guard_kept(c, d) ==
    IF d = c THEN guard(info(d))
    ELSE <<lock(info(d))>> \o locks_send_message(d) \o <<unlock(info(d))>>

\* The body of the loop of handle_publish for the subscriber d: the guard of
\* the `if` condition is dropped before send_message takes the subscriber's
\* mutex, and the publisher itself is sent nothing.
event_to(c, d) ==
    IF d = c THEN guard(info(d))
    ELSE guard(info(d)) \o locks_send_message(d)

RECURSIVE events_to(_, _)
\* The loop of handle_publish over the subscribers ds.
events_to(c, ds) ==
    IF ds = <<>> THEN <<>>
    ELSE event_to(c, Head(ds)) \o events_to(c, Tail(ds))

\* handle_publish with the subscribers L: the realm's guard lives to the end;
\* the log line formats the tree, which asks every subscriber for its id.
locks_handle_publish(c, r, L) ==
    <<lock(r)>> \o guard(info(c)) \o each_id(listed(L)) \o events_to(c, listed(L))
        \o locks_send_message(c) \o <<unlock(r)>>

\* handle_subscribe, handle_register: the reply is sent under the realm.
locks_handle_subscribe(c, r) == <<lock(r)>> \o locks_send_message(c) \o <<unlock(r)>>

\* handle_unsubscribe, handle_unregister: get_id() of the own info, the retain
\* over the list, the reply.
locks_handle_unsubscribe(c, r, L) ==
    <<lock(r)>> \o guard(info(c)) \o each_id(listed(L)) \o locks_send_message(c)
        \o <<unlock(r)>>

\* handle_call, handle_yield, handle_error: the message goes to the callee or
\* to the caller d under the realm.
locks_handle_call(c, r, d) == <<lock(r)>> \o locks_send_message(d) \o <<unlock(r)>>

\* One loop of Router::shutdown over a realm with the connections L: the
\* guard of the realm lives through the loop; `twice` is the first loop, which
\* sends the Goodbye and then sets the state.
locks_shutdown_realm(r, L, twice) ==
    <<lock(r)>> \o each_id(listed(L)) \o (IF twice THEN each_id(listed(L)) ELSE <<>>)
        \o <<unlock(r)>>

RECURSIVE locks_shutdown_realms(_, _, _)
\* The loop of Router::shutdown over the realms rs, `at` giving the
\* connections of each.
locks_shutdown_realms(rs, at, twice) ==
    IF rs = {} THEN <<>>
    ELSE LET r == CHOOSE x \in rs : \A y \in rs : RealmNum(x) <= RealmNum(y)
         IN  locks_shutdown_realm(r, at[r], twice)
                 \o locks_shutdown_realms(rs \ {r}, at, twice)

\* Router::shutdown: the guard of the realm map lives through each of the two
\* loops over the realms; the sleep between them holds nothing.
locks_shutdown(at) ==
    <<lock("realms")>> \o locks_shutdown_realms(DOMAIN at, at, TRUE)
        \o <<unlock("realms")>>
        \o <<lock("realms")>> \o locks_shutdown_realms(DOMAIN at, at, FALSE)
        \o <<unlock("realms")>>

\* The connections in the lists a handler walks.  The locks taken for a
\* shorter list are those taken for the rest of a longer one.
Lists == {Conns}

\* The handlers a connection's thread can run.
Handlers(c) ==
    {locks_handle_hello(c, r) : r \in realms}
    \cup {locks_handle_subscribe(c, r) : r \in realms}
    \cup {locks_handle_call(c, r, d) : r \in realms, d \in Conns}
    \cup UNION {{locks_handle_goodbye(c, r, L), locks_on_close(c, r, L),
                 locks_handle_publish(c, r, L), locks_handle_unsubscribe(c, r, L)} :
                    r \in realms, L \in Lists}

\* on_message / on_close is called for a connection.
handler_begins(t) ==
    /\ locking.todo[t] = <<>>
    /\ \E h \in Handlers(handled_by(t)) :
            locking' = [locking EXCEPT !.todo[t] = h]
    /\ lockFrame

\* Router::shutdown is called.
shutdown_begins ==
    /\ locking.todo["shutdown"] = <<>>
    /\ \E at \in [realms -> Lists] :
            locking' = [locking EXCEPT !.todo["shutdown"] = locks_shutdown(at)]
    /\ lockFrame

\* Mutex::lock returns to thread t.
mutex_lock(t) ==
    /\ locking.todo[t] # <<>>
    /\ Head(locking.todo[t]).op = "lock"
    /\ locking.owner[Head(locking.todo[t]).m] = "none"
    /\ locking' = [locking EXCEPT !.owner[Head(locking.todo[t]).m] = t,
                                   !.todo[t] = Tail(@)]
    /\ lockFrame

\* Thread t drops a guard.
mutex_unlock(t) ==
    /\ locking.todo[t] # <<>>
    /\ Head(locking.todo[t]).op = "unlock"
    /\ locking' = [locking EXCEPT !.owner[Head(locking.todo[t]).m] = "none",
                                   !.todo[t] = Tail(@)]
    /\ lockFrame

NextLocks ==
    \/ \E t \in {"handler1", "handler2"} : handler_begins(t)
    \/ shutdown_begins
    \/ \E t \in Threads : mutex_lock(t)
    \/ \E t \in Threads : mutex_unlock(t)

SpecLocks == InitTwoRealms /\ [][NextLocks]_vars

\* ---------------------------------------------------------- messages/mod.rs
\* The codec of Message.  A message is its variant, its args and its kwargs;
\* the ids, uris and option dicts in front of them are written and read back
\* one by one and are kept as numbered elements.  What is written is the
\* array of elements that serde_json and rmp_serde are handed, which is the
\* same for both.

Variants ==
    {"Hello", "Welcome", "Abort", "Goodbye", "Error", "Subscribe", "Subscribed",
     "Unsubscribe", "Unsubscribed", "Publish", "Published", "Event", "Register",
     "Registered", "Unregister", "Unregistered", "Call", "Invocation", "Yield",
     "Result"}

\* The variants that end in Option<List>, Option<Dict>.
WithArgs == {"Error", "Publish", "Event", "Call", "Invocation", "Yield", "Result"}

\* The first element that Message::serialize writes for a variant.
Tag(v) ==
    CASE v = "Hello" -> 1 [] v = "Welcome" -> 2 [] v = "Abort" -> 3
      [] v = "Goodbye" -> 6 [] v = "Error" -> 8 [] v = "Subscribe" -> 32
      [] v = "Subscribed" -> 33 [] v = "Unsubscribe" -> 34
      [] v = "Unsubscribed" -> 35 [] v = "Publish" -> 16 [] v = "Published" -> 17
      [] v = "Event" -> 36 [] v = "Register" -> 64 [] v = "Registered" -> 65
      [] v = "Unregister" -> 66 [] v = "Unregistered" -> 67 [] v = "Call" -> 48
      [] v = "Invocation" -> 68 [] v = "Yield" -> 70 [] v = "Result" -> 50

\* The elements between the tag and the args.
Items(v) ==
    CASE v \in {"Unsubscribed", "Unregistered"} -> 1
      [] v \in {"Subscribe", "Publish", "Event", "Register", "Call", "Invocation"} -> 3
      [] v = "Error" -> 4
      [] OTHER -> 2

\* Some first elements that are no tag.
UnknownTags == {0, 4, 99}

\* Option<T>
None(empty) == [some |-> FALSE, of |-> empty]
Some(x) == [some |-> TRUE, of |-> x]

\* Value: strings are numbered.
Values ==
    {[kind |-> "String", n |-> 1], [kind |-> "Integer", n |-> -1],
     [kind |-> "Integer", n |-> 1], [kind |-> "UnsignedInteger", n |-> 1]}

\* The args and kwargs of the samples: absent, empty, or one value.
ArgLists == {None(<<>>), Some(<<>>)} \cup {Some(<<v>>) : v \in Values}
ArgDicts == {None({}), Some({})} \cup {Some({<<"k", v>>}) : v \in Values}

\* The messages of every variant.
Messages ==
    {[variant |-> v, args |-> None(<<>>), kwargs |-> None({})] : v \in Variants \ WithArgs}
    \cup {[variant |-> v, args |-> a, kwargs |-> k] :
              v \in WithArgs, a \in ArgLists, k \in ArgDicts}

\* Value::serialize: serialize_i64 of a number that is not negative writes
\* what serialize_u64 writes, in JSON and in MsgPack.
serialize_value(v) ==
    CASE v.kind = "String" -> [is |-> "str", n |-> v.n]
      [] v.kind = "UnsignedInteger" -> [is |-> "uint", n |-> v.n]
      [] v.kind = "Integer" -> [is |-> IF v.n >= 0 THEN "uint" ELSE "int", n |-> v.n]

\* ValueVisitor: visit_str, visit_u64, visit_i64.
deserialize_value(w) ==
    CASE w.is = "str" -> [kind |-> "String", n |-> w.n]
      [] w.is = "uint" -> [kind |-> "UnsignedInteger", n |-> w.n]
      [] w.is = "int" -> [kind |-> "Integer", n |-> w.n]

array(list) == [is |-> "array", of |-> [i \in DOMAIN list |-> serialize_value(list[i])]]
map(dict) == [is |-> "map", of |-> {<<e[1], serialize_value(e[2])>> : e \in dict}]

\* serialize_with_args!
serialize_with_args(args, kwargs, items) ==
    IF kwargs.some
    THEN IF args.some THEN items \o <<array(args.of), map(kwargs.of)>>
         ELSE items \o <<array(<<>>), map(kwargs.of)>>
    ELSE IF args.some THEN items \o <<array(args.of)>>
         ELSE items

\* Message::serialize: the tag and the elements of the variant, then the args.
serialize(m) ==
    LET items == <<[is |-> "uint", n |-> Tag(m.variant)]>>
                     \o [i \in 1..Items(m.variant) |-> [is |-> "item", n |-> i]]
    IN  IF m.variant \in WithArgs THEN serialize_with_args(m.args, m.kwargs, items)
        ELSE items

\* Decoding failed.
Err == [ok |-> FALSE, variant |-> "", args |-> None(<<>>), kwargs |-> None({})]

\* visitor.next_element() for Option<List> and for Option<Dict> at place i.
next_list(w, i) ==
    IF i > Len(w) THEN None(<<>>)
    ELSE Some([j \in DOMAIN w[i].of |-> deserialize_value(w[i].of[j])])
next_dict(w, i) ==
    IF i > Len(w) THEN None({})
    ELSE Some({<<e[1], deserialize_value(e[2])>> : e \in w[i].of})

\* MessageVisitor::visit_seq and the visit_* it calls: the tag selects the
\* variant, try_or! fails on a missing element, args and kwargs are whatever
\* elements follow.
visit_seq(w) ==
    IF w = <<>> \/ \A v \in Variants : Tag(v) # w[1].n THEN Err
    ELSE LET v == CHOOSE x \in Variants : Tag(x) = w[1].n IN
         IF Len(w) < 1 + Items(v) THEN Err
         ELSE [ok |-> TRUE, variant |-> v,
               args |-> IF v \in WithArgs THEN next_list(w, Items(v) + 2) ELSE None(<<>>),
               kwargs |-> IF v \in WithArgs THEN next_dict(w, Items(v) + 3) ELSE None({})]

Encodings == {"JSON", "MsgPack"}

\* Everything but the codec.
codecFrame ==
    UNCHANGED <<realms, state, sock, realm, subscribed_topics, registered_procedures,
                connections, subscriptions, subscription_ids_to_uris, registrations,
                registration_ids_to_uris, active_calls, shutdown_phase, last, sent,
                dispatched, inserts, out, client, user, locking>>

\* serde_json::to_string(&m), or m.serialize(&mut Serializer::with(..)).
codec_serialize ==
    /\ codec.stage = "idle"
    /\ \E e \in Encodings, m \in Messages :
          codec' = [stage |-> "encoded", encoding |-> e, sample |-> TRUE,
                    message |-> m, wire |-> serialize(m), decoded |-> Err]
    /\ codecFrame

\* An array arrives whose first element is no tag.
codec_receive ==
    /\ codec.stage = "idle"
    /\ \E e \in Encodings, m \in Messages, t \in UnknownTags :
          codec' = [stage |-> "encoded", encoding |-> e, sample |-> FALSE,
                    message |-> m,
                    wire |-> <<[is |-> "uint", n |-> t]>> \o Tail(serialize(m)),
                    decoded |-> Err]
    /\ codecFrame

\* serde_json::from_str::<Message>(..), or Deserialize::deserialize(&mut de).
codec_deserialize ==
    /\ codec.stage = "encoded"
    /\ codec' = [codec EXCEPT !.stage = "decoded", !.decoded = visit_seq(codec.wire)]
    /\ codecFrame

NextCodec == codec_serialize \/ codec_receive \/ codec_deserialize

SpecCodec == InitOneRealm /\ [][NextCodec]_vars


\* What it means for a pattern to match a URI under a matching policy.
Matches(pattern, matching_policy, uri) ==
    CASE matching_policy = "Strict" -> pattern = uri
      [] matching_policy = "Wildcard" ->
            /\ Len(pattern) = Len(uri)
            /\ \A i \in 1..Len(pattern) : pattern[i] = "" \/ pattern[i] = uri[i]
      [] matching_policy = "Prefix" ->
            /\ Len(pattern) <= Len(uri)
            /\ \A i \in 1..Len(pattern) : pattern[i] = uri[i]

SubEntryPolicy(trie, e) ==
    IF e.pre THEN trie[e.node].prefix_connections[e.pos].policy
    ELSE trie[e.node].connections[e.pos].policy

SubEntryMatches(trie, e, uri) == Matches(e.node, SubEntryPolicy(trie, e), uri)

\* The place of the entry a yielded item was read from.
ItemPlace(trie, item) ==
    [node |-> item.node, pre |-> (item.id = trie[item.node].prefix_id), pos |-> item.pos]

RECURSIVE VisitOrder(_, _, _)
\* The entries met on the walk the subscription manager is meant to make for
\* uri: at a node its prefix entries, its exact entries if the URI ends
\* there, else the wildcard child's subtree and then the literal child's.
VisitOrder(trie, node, uri) ==
    LET n == trie[node]
        pre == [i \in 1..Len(n.prefix_connections) |->
                    [node |-> node, pre |-> TRUE, pos |-> i]]
        exact == [i \in 1..Len(n.connections) |->
                    [node |-> node, pre |-> FALSE, pos |-> i]]
        bit == uri[Len(node) + 1]
    IN
    IF Len(node) = Len(uri) THEN pre \o exact
    ELSE pre
         \o (IF has_edge(trie, node, "") THEN VisitOrder(trie, Append(node, ""), uri)
             ELSE <<>>)
         \o (IF has_edge(trie, node, bit) THEN VisitOrder(trie, Append(node, bit), uri)
             ELSE <<>>)

\* C4: for any contents of the subscription trie and any published URI without
\* empty segments, the filter iterator terminates and yields exactly the
\* entries whose pattern matches the URI (strict: all segments equal; wildcard:
\* same length and every non-empty pattern segment equal; prefix: the pattern
\* is a leading run of the URI), each once, in the order prefix entries, exact
\* entries, wildcard subtree, literal subtree.
C4_FilterYieldsExactlyMatches ==
    out.op = "filter" =>
        LET trie == subscriptions["r1"]
            places == [i \in 1..Len(out.items) |-> ItemPlace(trie, out.items[i])]
            IsMatch(e) == SubEntryMatches(trie, e, out.uri)
        IN
        /\ out.terminated
        /\ Range(places) = {e \in SubEntries(trie) : IsMatch(e)}
        /\ Cardinality(Range(places)) = Len(places)
        /\ places = SelectSeq(VisitOrder(trie, <<>>, out.uri), IsMatch)

RegEntryPolicy(trie, e) ==
    IF e.pre THEN trie[e.node].prefix_connections.procedures[e.pos].policy
    ELSE trie[e.node].connections.procedures[e.pos].policy

\* The registrations equal to the URI, the wildcard registrations that match
\* it, and the prefix registrations on the URI or one of its ancestors.
ExactRegs(trie, uri) ==
    {e \in RegEntries(trie) : ~e.pre /\ e.node = uri}
WildcardRegs(trie, uri) ==
    {e \in RegEntries(trie) :
        /\ ~e.pre
        /\ RegEntryPolicy(trie, e) = "Wildcard"
        /\ Matches(e.node, "Wildcard", uri)}
PrefixRegs(trie, uri) ==
    {e \in RegEntries(trie) : e.pre /\ Matches(e.node, "Prefix", uri)}

\* C6: the callee lookup follows the precedence exact > wildcard > prefix
\* ancestor, and answers NoSuchProcedure only when no registration matches.
C6_LookupPrecedence ==
    out.op = "lookup" =>
        LET trie == registrations["r1"]
            got == [node |-> out.node, pre |-> out.pre, pos |-> out.idx]
        IN
        IF ExactRegs(trie, out.uri) # {}
        THEN out.found /\ got \in ExactRegs(trie, out.uri)
        ELSE IF WildcardRegs(trie, out.uri) # {}
        THEN out.found /\ got \in WildcardRegs(trie, out.uri)
        ELSE IF PrefixRegs(trie, out.uri) # {}
        THEN out.found /\ got \in PrefixRegs(trie, out.uri)
        ELSE ~out.found

\* ---- sessions

\* C9: a Hello(realm) received on a connection in state Initializing, for a
\* realm the router has, moves the connection to Connected, adds it to that
\* realm's connection list, and sends it Welcome carrying the connection's
\* session id.
C9_HelloAttaches ==
    [][\A c \in Conns, r \in realms :
          (/\ state[c] = "Initializing"
           /\ last'.type = "Hello" /\ last'.conn = c /\ last'.uri = <<r>>)
          => /\ state'[c] = "Connected"
             /\ c \in Range(connections'[r])
             /\ sent' = <<send_message(c, Welcome(conn_id(c)))>>]_vars

\* A connection has just been welcomed from Initializing.
C9_Witness ==
    /\ last.type = "Hello" /\ last.was = "Initializing"
    /\ last.uri[1] \in realms
    /\ state[last.conn] = "Connected"
    /\ sent = <<send_message(last.conn, Welcome(conn_id(last.conn)))>>

\* C10: any message other than Hello received on a connection in state
\* Initializing makes the router send Abort to that connection and terminate
\* it; the message creates no subscription, registration or active call.
C10_AbortOnNonHello ==
    [][\A c \in Conns :
          (/\ state[c] = "Initializing"
           /\ last'.kind = "message" /\ last'.conn = c /\ last'.type # "Hello")
          => /\ \E i \in 1..Len(sent') :
                    sent'[i].to = c /\ sent'[i].msg.type = "Abort"
             /\ c \notin UNION {Range(connections'[r]) : r \in RealmNames}
             /\ \A r \in RealmNames :
                    /\ SubEntries(subscriptions'[r]) = SubEntries(subscriptions[r])
                    /\ RegEntries(registrations'[r]) = RegEntries(registrations[r])
                    /\ DOMAIN active_calls'[r] = DOMAIN active_calls[r]]_vars

\* ---- cleanup

\* The connections that have an entry in a subscription trie.
SubscribersOf(trie) ==
    {(IF e.pre THEN trie[e.node].prefix_connections[e.pos]
      ELSE trie[e.node].connections[e.pos]).subscriber : e \in SubEntries(trie)}

\* The connections that have an entry in a registration trie.
RegistrantsOf(trie) ==
    {(IF e.pre THEN trie[e.node].prefix_connections.procedures[e.pos]
      ELSE trie[e.node].connections.procedures[e.pos]).registrant :
        e \in RegEntries(trie)}

\* C2: after a connection's WebSocket has closed, whatever state the
\* connection was in, neither trie of its realm holds an entry with its id,
\* the realm's connection list does not contain it, and a Publish sends it no
\* Event.
C2_ClosedLeavesNothing ==
    \A c \in Conns :
        sock[c] = "closed" =>
            /\ \A r \in RealmNames :
                  /\ c \notin SubscribersOf(subscriptions[r])
                  /\ c \notin RegistrantsOf(registrations[r])
                  /\ c \notin Range(connections[r])
            /\ last.type = "Publish" =>
                  \A i \in 1..Len(sent) :
                      ~(sent[i].to = c /\ sent[i].msg.type = "Event")

\* ---- publish

\* The data of a subscription entry and the id its Event carries.
SubEntryData(trie, e) ==
    IF e.pre THEN trie[e.node].prefix_connections[e.pos]
    ELSE trie[e.node].connections[e.pos]

SubEntryId(trie, e) ==
    IF e.pre THEN trie[e.node].prefix_id ELSE trie[e.node].id

\* The latest step was a Publish of an attached connection.
Published_now == last.type = "Publish" /\ realm[last.conn] # ""

\* The entries of the publisher's realm that match the published topic.
MatchingEntries ==
    LET trie == subscriptions[realm[last.conn]] IN
    {e \in SubEntries(trie) : SubEntryMatches(trie, e, last.uri)}

\* C5: a Publish never causes an Event to be sent to the connection that sent
\* it, also when that connection holds a matching subscription (strict,
\* wildcard or prefix); every other matching subscriber receives its Event.
C5_NoEventToPublisher ==
    Published_now =>
        LET trie == subscriptions[realm[last.conn]] IN
        /\ \A i \in 1..Len(sent) :
              ~(sent[i].to = last.conn /\ sent[i].msg.type = "Event")
        /\ \A e \in MatchingEntries :
              SubEntryData(trie, e).subscriber # last.conn =>
                  \E i \in 1..Len(sent) :
                      /\ sent[i].to = SubEntryData(trie, e).subscriber
                      /\ sent[i].msg.type = "Event"
                      /\ sent[i].msg.id1 = SubEntryId(trie, e)
                      /\ sent[i].msg.id2 = last.id2

\* A Publish whose topic matches a subscription of the publisher and one of
\* another connection; the other connection has been sent its Event.
C5_Witness ==
    /\ Published_now
    /\ \E e \in MatchingEntries :
          SubEntryData(subscriptions[realm[last.conn]], e).subscriber = last.conn
    /\ \E e \in MatchingEntries :
          SubEntryData(subscriptions[realm[last.conn]], e).subscriber # last.conn
    /\ \E i \in 1..Len(sent) : sent[i].msg.type = "Event"

\* ---- registration

SharedPolicies == {"RoundRobin", "Random", "First", "Last"}

\* The two lists of callee entries of every node of a registration trie.
RegLists(trie) ==
    {trie[p].connections.procedures : p \in Paths}
    \cup {trie[p].prefix_connections.procedures : p \in Paths}

\* A list holds at most one entry, or entries of one shared policy only.
ListWellFormed(procedures) ==
    \/ Len(procedures) <= 1
    \/ \E policy \in SharedPolicies :
          \A i \in 1..Len(procedures) : procedures[i].invoke = policy

\* The list a Register for the pattern and matching policy adds to.
TargetList(trie, procedure, pattern_match) ==
    IF pattern_match = "Prefix" THEN trie[procedure].prefix_connections
    ELSE trie[procedure].connections

\* The Register just handled would break the rule of its target list.
BreaksRule(c) ==
    LET coll == TargetList(registrations[realm[c]], last'.uri, last'.policy) IN
    /\ coll.procedures # <<>>
    /\ (last'.invoke = "Single" \/ last'.invoke # coll.invocation_policy)

\* C7: in every reachable state each registration node's list holds at most
\* one callee entry or only entries registered with one and the same
\* invocation policy out of roundrobin, random, first, last; a Register that
\* would break this is answered with Error(Register, request_id,
\* ProcedureAlreadyExists) and leaves the trie unchanged.
C7_OnePolicyPerNode ==
    /\ [](\A r \in RealmNames : \A l \in RegLists(registrations[r]) : ListWellFormed(l))
    /\ [][\A c \in Conns :
            (/\ last'.type = "Register" /\ last'.conn = c /\ realm[c] # ""
             /\ BreaksRule(c))
            => /\ sent' = <<send_message(c, Error("Register", last'.id1,
                                                 "ProcedureAlreadyExists", 0))>>
               /\ registrations' = registrations]_vars

\* A Register on a node that holds a callee has just been refused.
C7_Witness ==
    /\ last.type = "Register"
    /\ sent = <<send_message(last.conn, Error("Register", last.id1,
                                              "ProcedureAlreadyExists", 0))>>
    /\ \E l \in RegLists(registrations["r1"]) : Len(l) = 1

\* ---- calls

\* The callee of invocation i gives its first answer of the given type to it
\* in this step.
CalleeAnswers(i, type) ==
    /\ ~dispatched[i].replied
    /\ last'.type = type /\ last'.conn = dispatched[i].callee /\ last'.id1 = i

\* C1: for every Call the router dispatched as Invocation(i) to a callee, when
\* that callee sends Yield(i, args) the router sends Result(r, args) to the
\* connection that sent the Call, r being the Call's request id, and removes
\* active_calls[i]; when the callee sends Error(Invocation, i, reason) the
\* router sends Error(Call, r, reason) to that caller in the same way.  No
\* other connection receives a message for the call.
C1_AnswerReachesCaller ==
    [][\A i \in DOMAIN dispatched :
          LET d == dispatched[i] IN
          /\ CalleeAnswers(i, "Yield") =>
                /\ sent' = <<send_message(d.caller, Result(d.call_id, last'.args))>>
                /\ i \notin DOMAIN active_calls'[d.realm]
          /\ (CalleeAnswers(i, "Error") /\ last'.etype = "Invocation") =>
                /\ sent' = <<send_message(d.caller,
                                Error("Call", d.call_id, last'.policy, last'.args))>>
                /\ i \notin DOMAIN active_calls'[d.realm]]_vars

\* C3: if a callee connection disconnects while an invocation the router
\* forwarded to it is still outstanding, the router sends Error(Call,
\* caller_request_id, NetworkFailure) to the caller of that invocation and
\* removes its active_calls entry.
C3_CalleeLossFailsCall ==
    [][\A i \in DOMAIN dispatched :
          LET d == dispatched[i] IN
          (/\ i \in DOMAIN active_calls[d.realm]
           /\ d.caller # d.callee
           /\ last'.kind = "close" /\ last'.conn = d.callee)
          => /\ \E k \in 1..Len(sent') :
                    sent'[k] = send_message(d.caller,
                                   Error("Call", d.call_id, "NetworkFailure", 0))
             /\ i \notin DOMAIN active_calls'[d.realm]]_vars

\* ---- round robin

\* The 0-based number of the callee the k-th call of the run chose (k from 0).
Chosen(k) == out.items[k + 1].idx - 1

\* The number of callees of the run's list.
Callees == out.items[1].n

\* The position the run starts from: the cursor its first call found, which
\* get_entry takes as 0 when it is past the end of the list.
StartOfRun ==
    IF out.items[1].counter >= Callees THEN 0 ELSE out.items[1].counter

Listed(conns) == UNION {Range(conns[r]) : r \in RealmNames}

C12_GoodbyeAndOut ==
    [][\A c \in Conns :
          (state[c] = "Connected" /\ last'.type = "Goodbye" /\ last'.conn = c)
          => /\ sent' = <<send_message(c, Goodbye("GoodbyeAndOut"))>>
             /\ state'[c] = "Disconnected"
             /\ sock'[c] = "closing"]_vars

\* An attached connection has just been answered its Goodbye.
C12_Witness ==
    /\ last.type = "Goodbye" /\ last.was = "Connected"
    /\ realm[last.conn] # ""
    /\ state[last.conn] = "Disconnected" /\ sock[last.conn] = "closing"
    /\ sent = <<send_message(last.conn, Goodbye("GoodbyeAndOut"))>>

\* C13: when the router receives, on a Connected connection, a frame that
\* fails to decode or carries an unknown tag ("Malformed"), it sends Abort to
\* that connection and terminates it, so that no later message from the
\* connection is handled.
C13_AbortOnMalformed ==
    [][\A c \in Conns :
          (state[c] = "Connected" /\ last'.type = "Malformed" /\ last'.conn = c)
          => /\ \E i \in 1..Len(sent') :
                    sent'[i].to = c /\ sent'[i].msg.type = "Abort"
             /\ ~can_receive(c)']_vars

\* ---- unsubscribe and unregister

\* Connection c has an entry in the list that carries subscription id `id`.
HoldsSubscription(c, id) ==
    LET trie == subscriptions[realm[c]] IN
    \E e \in SubEntries(trie) :
        SubEntryId(trie, e) = id /\ SubEntryData(trie, e).subscriber = c

RegEntryData(trie, e) ==
    IF e.pre THEN trie[e.node].prefix_connections.procedures[e.pos]
    ELSE trie[e.node].connections.procedures[e.pos]

RegEntryId(trie, e) ==
    IF e.pre THEN trie[e.node].prefix_id ELSE trie[e.node].id

\* Connection c has an entry in the list that carries registration id `id`.
HoldsRegistration(c, id) ==
    LET trie == registrations[realm[c]] IN
    \E e \in RegEntries(trie) :
        RegEntryId(trie, e) = id /\ RegEntryData(trie, e).registrant = c

\* C14: an Unsubscribe for a subscription id that the requesting connection
\* does not currently hold (never subscribed, already unsubscribed, or held
\* only by other connections) is answered with Error(Unsubscribe, request_id,
\* NoSuchSubscription), not with Unsubscribed, and leaves the trie unchanged.
C14_UnsubscribeNotHeld ==
    [][\A c \in Conns :
          (/\ last'.type = "Unsubscribe" /\ last'.conn = c /\ realm[c] # ""
           /\ ~HoldsSubscription(c, last'.id2))
          => /\ sent' = <<send_message(c, Error("Unsubscribe", last'.id1,
                                               "NoSuchSubscription", 0))>>
             /\ subscriptions' = subscriptions]_vars

\* C15: an Unregister for a registration id that the requesting connection
\* does not currently hold (never registered, already unregistered, or held
\* only by another callee) is answered with Error(Unregister, request_id,
\* reason), reason being NoSuchRegistration or NoSuchProcedure, not with
\* Unregistered, and leaves the trie unchanged.
C15_UnregisterNotHeld ==
    [][\A c \in Conns :
          (/\ last'.type = "Unregister" /\ last'.conn = c /\ realm[c] # ""
           /\ ~HoldsRegistration(c, last'.id2))
          => /\ \E reason \in {"NoSuchRegistration", "NoSuchProcedure"} :
                    sent' = <<send_message(c, Error("Unregister", last'.id1,
                                                    reason, 0))>>
             /\ registrations' = registrations]_vars

\* ---- calls without a callee

\* The registrations of a trie that match a called URI.
MatchingRegs(trie, uri) ==
    ExactRegs(trie, uri) \cup WildcardRegs(trie, uri) \cup PrefixRegs(trie, uri)

Subscribed_id ==
    IF sent' # <<>> /\ sent'[1].msg.type = "Subscribed" THEN sent'[1].msg.id2 ELSE 0

\* The ids handed out so far in the realm for a pattern and a matching policy.
\* subscription_ids_to_uris gets an entry on every successful Subscribe and
\* loses none; Strict and Wildcard subscriptions are both recorded as not
\* prefix, so ids are compared across them as well.
IdsGivenFor(r, topic, pattern_match) ==
    {id \in DOMAIN subscription_ids_to_uris[r] :
        /\ subscription_ids_to_uris[r][id].uri = topic
        /\ subscription_ids_to_uris[r][id].is_prefix = (pattern_match = "Prefix")}

\* C17: any two successful Subscribes in one realm for the same topic pattern
\* with the same matching policy return the same subscription id, whichever
\* connections send them and whatever subscribes, unsubscribes or disconnects
\* happen in between.
C17_SameSubscriptionId ==
    [][\A c \in Conns :
          (/\ last'.type = "Subscribe" /\ last'.conn = c /\ realm[c] # ""
           /\ Subscribed_id # 0)
          => IdsGivenFor(realm[c], last'.uri, last'.policy) \subseteq {Subscribed_id}]_vars

\* A connection has just been given the id that another connection got for
\* the same pattern before it closed: the trie holds the new subscriber only.
C17_Witness ==
    /\ last.type = "Subscribe" /\ sent # <<>> /\ sent[1].msg.type = "Subscribed"
    /\ \E c \in Conns \ {last.conn} :
          /\ sock[c] = "closed"
          /\ subscribed_topics[c] = <<sent[1].msg.id2>>
    /\ \A e \in SubEntries(subscriptions["r1"]) : SubEntryData(subscriptions["r1"], e).subscriber = last.conn

\* ---- events

\* Connection c holds, in the trie of its realm, a subscription with the id
\* `id` that it was given in a Subscribed reply and whose pattern matches uri.
HoldsMatchingSubscription(c, id, uri) ==
    LET trie == subscriptions[realm[c]] IN
    /\ \E i \in DOMAIN subscribed_topics[c] : subscribed_topics[c][i] = id
    /\ \E e \in SubEntries(trie) :
          /\ SubEntryId(trie, e) = id
          /\ SubEntryData(trie, e).subscriber = c
          /\ SubEntryMatches(trie, e, uri)

\* C18: every Event the router sends to a connection carries, as its
\* subscription id, an id that the router returned to that same connection in
\* a Subscribed reply, for a subscription the connection still holds and whose
\* pattern matches the published topic.
C18_EventCarriesHeldId ==
    [][\A i \in 1..Len(sent') :
          sent'[i].msg.type = "Event"
          => HoldsMatchingSubscription(sent'[i].to, sent'[i].msg.id1, last'.uri)]_vars

\* ---- acknowledged publications

\* The places of sent' that hold a message of the given type.
SentOfType(type) == {i \in 1..Len(sent') : sent'[i].msg.type = type}

\* C19: the router replies Published(request_id, publication_id) to a Publish
\* (of a connection attached to a realm) exactly when the Publish options have
\* acknowledge=true, and the publication id in that reply is the one carried
\* by every Event sent for that Publish.
C19_PublishedIffAcknowledge ==
    [][\A c \in Conns :
          (last'.type = "Publish" /\ last'.conn = c /\ realm[c] # "")
          => /\ (SentOfType("Published") # {}) <=> (last'.etype = "ack")
             /\ \A i \in SentOfType("Published") :
                   /\ sent'[i].to = c
                   /\ sent'[i].msg.id1 = last'.id1
                   /\ \A j \in SentOfType("Event") :
                         sent'[j].msg.id2 = sent'[i].msg.id2
             /\ Cardinality(SentOfType("Published")) <= 1]_vars

\* An acknowledged Publish has just sent an Event to a subscriber and the
\* Published reply to the publisher.
C19_Witness ==
    /\ Published_now /\ last.etype = "ack"
    /\ \E i, j \in 1..Len(sent) :
          /\ sent[i].msg.type = "Event" /\ sent[i].to # last.conn
          /\ sent[j] = send_message(last.conn, Published(last.id1, sent[i].msg.id2))

\* A Publish without acknowledgement has just sent an Event and no reply.
C19_WitnessUnacknowledged ==
    /\ Published_now /\ last.etype = ""
    /\ \E i \in 1..Len(sent) : sent[i].msg.type = "Event"
    /\ \A i \in 1..Len(sent) : sent[i].msg.type # "Published"

\* ---- id maps and tries

\* The ids of the lists of a subscription trie that hold an entry.
SubIdsInTrie(trie) == {SubEntryId(trie, e) : e \in SubEntries(trie)}

\* The ids of the lists of a registration trie that hold an entry.
RegIdsInTrie(trie) == {RegEntryId(trie, e) : e \in RegEntries(trie)}

\* C20: in every reachable state of a realm, an id is a key of
\* subscription_ids_to_uris if and only if the subscription trie holds at
\* least one subscriber entry in the list (exact or prefix) that has that id;
\* the same holds for registration_ids_to_uris and the registration trie.
C20_IdMapsMirrorTries ==
    \A r \in realms :
        /\ DOMAIN subscription_ids_to_uris[r] = SubIdsInTrie(subscriptions[r])
        /\ DOMAIN registration_ids_to_uris[r] = RegIdsInTrie(registrations[r])

\* ---- active calls

\* C21: in every reachable state, each entry of active_calls belongs to an
\* invocation whose callee connection is still attached to the realm, and
\* whose caller connection is still attached and has not yet received a Result
\* or Error for the recorded request id.
C21_ActiveCallsAreLive ==
    \A r \in realms : \A i \in DOMAIN active_calls[r] :
        /\ i \in DOMAIN dispatched
        /\ dispatched[i].callee \in Range(connections[r])
        /\ active_calls[r][i].caller \in Range(connections[r])
        /\ active_calls[r][i] = [call_id |-> dispatched[i].call_id,
                                 caller |-> dispatched[i].caller]
        /\ ~dispatched[i].replied

\* ---- realms

\* The places of sent' that hold an Event or an Invocation.
Deliveries == {i \in 1..Len(sent') : sent'[i].msg.type \in {"Event", "Invocation"}}

\* C22: realms isolate subscriptions and registrations: an Event or Invocation
\* is only ever sent to a connection that is attached to the same realm as the
\* publisher or caller that triggered it, so a Publish or Call made in realm A
\* never reaches a subscription or registration made in realm B.
C22_RealmsIsolate ==
    [][\A i \in Deliveries :
          /\ last'.type \in {"Publish", "Call"}
          /\ realm[last'.conn] # ""
          /\ realm[sent'[i].to] = realm[last'.conn]
          /\ sent'[i].to \in Range(connections[realm[last'.conn]])
          /\ sent'[i].msg.type = "Event" =>
                sent'[i].msg.id1 \in SubIdsInTrie(subscriptions[realm[last'.conn]])
          /\ sent'[i].msg.type = "Invocation" =>
                sent'[i].msg.id2 \in RegIdsInTrie(registrations[realm[last'.conn]])]_vars

\* ---- order of replies

ReplyTypes ==
    {"Subscribed", "Unsubscribed", "Registered", "Unregistered", "Published",
     "Result", "Error"}

RequestTypes == {"Subscribe", "Unsubscribe", "Register", "Unregister", "Publish", "Call"}

\* The places of sent' that hold a reply to a request.
Replies == {k \in 1..Len(sent') : sent'[k].msg.type \in ReplyTypes}

\* The calls of connection c that are with a callee before the step, by
\* invocation id; invocation ids grow in the order the calls were received.
CallsOut(c) ==
    {i \in DOMAIN dispatched :
        /\ i \in DOMAIN active_calls[dispatched[i].realm]
        /\ active_calls[dispatched[i].realm][i].caller = c}

\* The invocation whose answer the step handles, if it handles one; past
\* every invocation otherwise (the step handles the newest message of the
\* connection it replies to).
AnsweredNow ==
    IF last'.type \in {"Yield", "Error"} THEN last'.id1 ELSE next_invocation_id

DirectReply(k) ==
    /\ last'.type \in RequestTypes
    /\ sent'[k].to = last'.conn
    /\ sent'[k].msg.id1 = last'.id1

\* The reply at place k passes on the answer to an invocation that the step
\* handles, to the caller and under the request id kept in active_calls.
ForwardedReply(k) ==
    /\ last'.type \in {"Yield", "Error"}
    /\ sent'[k].msg.type \in {"Result", "Error"}
    /\ realm[last'.conn] # ""
    /\ last'.id1 \in DOMAIN active_calls[realm[last'.conn]]
    /\ sent'[k].to = active_calls[realm[last'.conn]][last'.id1].caller
    /\ sent'[k].msg.id1 = active_calls[realm[last'.conn]][last'.id1].call_id

\* The step handles a request of an attached connection that the router
\* answers itself: any request but a Publish without acknowledgement and a
\* Call it has passed to a callee.
AnsweredAtOnce ==
    /\ last'.type \in RequestTypes
    /\ realm[last'.conn] # ""
    /\ ~(last'.type = "Publish" /\ last'.etype # "ack")
    /\ ~(last'.type = "Call" /\ \E k \in 1..Len(sent') : sent'[k].msg.type = "Invocation")

C30_EmptySegmentRejected ==
    [][\A c \in Conns :
          (/\ last'.type \in {"Subscribe", "Register"} /\ last'.conn = c
           /\ realm[c] # ""
           /\ ~LegalPattern(last'.uri, last'.policy))
          => /\ sent' = <<send_message(c, Error(last'.type, last'.id1, "InvalidURI", 0))>>
             /\ SubEntries(subscriptions'[realm[c]]) = SubEntries(subscriptions[realm[c]])
             /\ RegEntries(registrations'[realm[c]]) = RegEntries(registrations[realm[c]])]_vars

\* ---- client: requests

\* The values the future of request id has resolved to, in order.
Completions(id) == IF id \in DOMAIN user.completed THEN user.completed[id] ELSE <<>>

\* C24: every request a client issues through subscribe, unsubscribe,
\* register, unregister, publish_and_acknowledge or call, in whatever
\* connection state it is issued, completes exactly once: with the router's
\* matching acknowledgement or Result ("Ok"), with the router's Error for that
\* request id (its reason), or with NetworkFailure on connection loss; never
\* twice, and never left pending once the connection has dropped.
C24_CompletesExactlyOnce ==
    \A k \in 1..Len(user.issued) :
        LET id == user.issued[k] IN
        /\ Len(Completions(id)) <= 1
        /\ \A j \in 1..Len(Completions(id)) :
              Completions(id)[j] \in {"Ok", "Canceled", "NetworkFailure"}
        /\ client.link \in {"closed", "gone"} => Len(Completions(id)) = 1

\* The tables of pending requests.
RequestTables ==
    {"subscription_requests", "unsubscription_requests", "registration_requests",
     "unregistration_requests", "publish_requests", "call_requests"}

\* C25: when the client's connection closes, every request still pending in
\* any request table (subscribe, unsubscribe, register, unregister, publish,
\* call) completes with a call-error whose reason is NetworkFailure, and all of
\* those tables are empty afterwards.
C25_CloseFailsPending ==
    [][last'.type = "close" =>
          \A table \in RequestTables :
              /\ client'[table] = <<>>
              /\ \A id \in DOMAIN client[table] :
                    /\ id \in DOMAIN user'.completed
                    /\ user'.completed[id] = Completions(id) \o <<"NetworkFailure">>]_vars

\* The connection has just closed on requests of two kinds that were pending;
\* both have failed with NetworkFailure.
C25_Witness ==
    /\ last.type = "close"
    /\ \E a, b \in DOMAIN user.completed :
          /\ a # b
          /\ user.completed[a] = <<"NetworkFailure">>
          /\ user.completed[b] = <<"NetworkFailure">>
    /\ \A table \in RequestTables : client[table] = <<>>

\* C26: the request ids a client session puts into its successive requests of
\* any kind (subscribe, unsubscribe, register, unregister, publish,
\* publish_and_acknowledge, call) are 1, 2, 3, ...: each is one more than the
\* previous one and no id is used for two requests of the same session.
C26_RequestIdsCount ==
    \A k \in 1..Len(user.issued) : user.issued[k] = k

\* The session has made three requests, the latest a Call, and the message
\* just sent carries the id 3.
C26_Witness ==
    /\ Len(user.issued) = 3
    /\ last.type = "Call"
    /\ sent # <<>> /\ sent[1].msg.id1 = 3

\* ---- client: callbacks

\* The latest of the acknowledgements `opened` and `closed` for id is an
\* `opened`.
Live(id, opened, closed) ==
    \E k \in 1..Len(user.acks) :
        /\ user.acks[k] = [type |-> opened, id |-> id]
        /\ \A j \in (k + 1)..Len(user.acks) : user.acks[j] # [type |-> closed, id |-> id]

\* C27: the client's table of active subscriptions (registrations) holds the
\* user callback for a router-assigned id exactly from the Subscribed
\* (Registered) acknowledgement until the Unsubscribed (Unregistered)
\* acknowledgement for that id or until the connection closes; after that, an
\* Event (Invocation) carrying that id no longer invokes the callback.
C27_CallbackWhileLive ==
    /\ [](client.connection_state # "Disconnected" =>
            \A id \in RouterIds :
                /\ id \in client.subscriptions <=> Live(id, "Subscribed", "Unsubscribed")
                /\ id \in client.registrations <=> Live(id, "Registered", "Unregistered"))
    /\ [][/\ (last'.type = "Event"
              /\ ~(Live(last'.id1, "Subscribed", "Unsubscribed")
                   /\ client.connection_state = "Connected"))
             => user'.invoked = <<>>
          /\ (last'.type = "Invocation"
              /\ ~(Live(last'.id2, "Registered", "Unregistered")
                   /\ client.connection_state = "Connected"))
             => user'.invoked = <<>>]_vars

\* C28: for each Invocation(i, registration_id, ...) a Connected client
\* receives whose registration id is in its registration table, the client
\* invokes that registration's callback once and sends exactly one reply
\* carrying the same id i: Yield(i, ...) when the callback returns a result,
\* Error(Invocation, i, reason, ...) when it returns an error.
C28_InvocationAnswered ==
    [][(/\ last'.type = "Invocation"
        /\ client.connection_state = "Connected"
        /\ last'.id2 \in client.registrations)
       => /\ user'.invoked = <<[table |-> "registrations", id |-> last'.id2]>>
          /\ Len(sent') = 1
          /\ sent'[1].msg.id1 = last'.id1
          /\ last'.result = "Ok" => sent'[1].msg.type = "Yield"
          /\ last'.result = "Err" =>
                sent'[1].msg.type = "Error" /\ sent'[1].msg.etype = "Invocation"]_vars

\* The callback of a registration has just returned an error and the client
\* has answered the Invocation with Error(Invocation, i).
C28_Witness ==
    /\ last.type = "Invocation" /\ last.was = "Connected" /\ last.result = "Err"
    /\ last.id2 \in client.registrations
    /\ user.invoked = <<[table |-> "registrations", id |-> last.id2]>>
    /\ sent = <<send_message(0, Error("Invocation", last.id1, "Canceled", 0))>>

\* ---- client: shutdown

\* C29: client shutdown() called in state Connected sets the state to
\* ShuttingDown and sends Goodbye(SystemShutdown), and its handle completes
\* with success when the router's Goodbye arrives; shutdown() called in any
\* other state sends nothing and completes immediately with an error.
C29_Shutdown ==
    [][/\ (last'.type = "shutdown" /\ client.connection_state = "Connected")
          => /\ client'.connection_state = "ShuttingDown"
             /\ client'.shutdown_complete
             /\ sent' = <<send_message(0, Goodbye("SystemShutdown"))>>
             /\ user'.shutdowns = user.shutdowns
       /\ (last'.type = "shutdown" /\ client.connection_state # "Connected")
          => /\ sent' = <<>>
             /\ client' = client
             /\ Len(user'.shutdowns) = Len(user.shutdowns) + 1
             /\ user'.shutdowns[Len(user'.shutdowns)] \notin {"Ok"}
       /\ (last'.type = "Goodbye" /\ client.connection_state = "ShuttingDown"
           /\ client.shutdown_complete)
          => user'.shutdowns = Append(user.shutdowns, "Ok")]_vars

\* The router's Goodbye has just completed the handle of a shutdown() made in
\* state Connected, after a shutdown() in another state was refused.
C29_Witness ==
    /\ last.type = "Goodbye" /\ last.was = "ShuttingDown"
    /\ Len(user.shutdowns) = 2
    /\ user.shutdowns[1] # "Ok"
    /\ user.shutdowns[2] = "Ok"

\* ---- router: one attachment per connection

\* How often connection c is listed in the connection lists of the realms.
RECURSIVE Listings(_, _)
Listings(c, rs) ==
    IF rs = {} THEN 0
    ELSE LET r == CHOOSE x \in rs : TRUE IN
         Cardinality({i \in 1..Len(connections[r]) : connections[r][i] = c})
             + Listings(c, rs \ {r})

\* C33: in every reachable state each router connection is in the connection
\* list of at most one realm and appears there at most once, and it is sent at
\* most one Welcome: a Hello received after the handshake has completed
\* neither attaches the connection again (to the same or another realm) nor
\* produces a second Welcome.
C33_AttachedOnce ==
    /\ [](\A c \in Conns : Listings(c, realms) <= 1)
    /\ [][(last'.type = "Hello" /\ state[last'.conn] # "Initializing")
          => /\ connections' = connections
             /\ \A k \in 1..Len(sent') : sent'[k].msg.type # "Welcome"]_vars

\* ---- router: who may answer an invocation

\* The latest step handled an answer to an invocation: a Yield or an
\* Error(Invocation). (Primed: it is read in the state after the step.)
AnswerStep == last.type = "Yield" \/ (last.type = "Error" /\ last.etype = "Invocation")

\* The messages of the latest step that complete a call at its caller.
CallCompletions ==
    {k \in 1..Len(sent) :
        sent[k].msg.type = "Result"
        \/ (sent[k].msg.type = "Error" /\ sent[k].msg.etype = "Call")}

\* C32: the router sends a Result or Error(Call) to a caller only in response
\* to a Yield or Error(Invocation) that comes from the connection to which it
\* sent that Invocation; a Yield or Error(Invocation) carrying the invocation
\* id but sent by any other connection of the realm does not complete the call
\* and does not remove its active_calls entry.
C32_OnlyCalleeAnswers ==
    [][AnswerStep' =>
          /\ CallCompletions' # {} =>
                /\ last'.id1 \in DOMAIN dispatched
                /\ dispatched[last'.id1].callee = last'.conn
          /\ (last'.id1 \in DOMAIN dispatched
              /\ dispatched[last'.id1].callee # last'.conn)
             => /\ CallCompletions' = {}
                /\ active_calls' = active_calls]_vars

\* ---- client: one response, one request

\* C35: on the client, an Unsubscribed acknowledgement (or an Error for an
\* Unsubscribe) with request id r completes only the pending unsubscribe whose
\* request id is r: every other pending request, including another pending
\* unsubscribe whose request id happens to equal the subscription id being
\* removed, stays in its table until its own response or connection loss.
C35_UnsubscribedCompletesOne ==
    [][(last'.type = "Unsubscribed"
        \/ (last'.type = "Error" /\ last'.etype = "Unsubscribe"))
       => \A table \in RequestTables : \A id \in DOMAIN client[table] :
             (table = "unsubscription_requests" /\ id = last'.id1)
             \/ (/\ id \in DOMAIN client'[table]
                 /\ Completions(id) = IF id \in DOMAIN user'.completed
                                      THEN user'.completed[id] ELSE <<>>)]_vars

\* ---- router: one Event per subscription

\* The Events of the latest step that went to connection c with subscription
\* id `id`.
EventsFor(c, id) ==
    {i \in 1..Len(sent) :
        sent[i].to = c /\ sent[i].msg.type = "Event" /\ sent[i].msg.id1 = id}

\* C34: for one Publish, a connection receives at most one Event per
\* subscription id, also when it has sent Subscribe for the same pattern more
\* than once; and one Unsubscribe for that id then ends delivery for that id
\* completely.
C34_OneEventPerSubscription ==
    /\ [](last.type = "Publish" =>
            \A c \in Conns : \A id \in known_subscriptions :
                Cardinality(EventsFor(c, id)) <= 1)
    /\ [][(/\ last'.type = "Unsubscribe"
           /\ \E i \in 1..Len(sent') : sent'[i].msg.type = "Unsubscribed")
          => ~\E e \in SubEntries(subscriptions'[realm[last'.conn]]) :
                /\ SubEntryId(subscriptions'[realm[last'.conn]], e) = last'.id2
                /\ SubEntryData(subscriptions'[realm[last'.conn]], e).subscriber
                       = last'.conn]_vars

\* ---- router: removals touch one connection

\* The entries of a list of subscribers that belong to other connections than
\* c, in order.
OtherSubscribers(list, c) ==
    LET Other(e) == e.subscriber # c IN SelectSeq(list, Other)

\* The entries of a list of procedures that belong to other connections than
\* c, in order.
OtherRegistrants(list, c) ==
    LET Other(e) == e.registrant # c IN SelectSeq(list, Other)

\* The latest step took entries of its connection away: an Unsubscribe, an
\* Unregister, or the cleanup at a Goodbye or at the loss of the socket.
RemovalStep ==
    last.type \in {"Unsubscribe", "Unregister", "Goodbye"} \/ last.kind = "close"

RegisteredAt(r, node, pre) ==
    LET coll == IF pre THEN registrations[r][node].prefix_connections
                ELSE registrations[r][node].connections
    IN {coll.procedures[k].registrant : k \in 1..Len(coll.procedures)}

\* The invocations dispatched before invocation i to the list that i went to.
EarlierAt(d, i) ==
    {j \in DOMAIN d : j < i /\ d[j].realm = d[i].realm
                      /\ d[j].node = d[i].node /\ d[j].pre = d[i].pre}

\* C39: under invocation policy RoundRobin, whenever at least two callees are
\* registered at a node at the time of a call, that call is not sent to the
\* callee that received the previous call to that node, also when callees
\* unregister between the two calls.
C39_RoundRobinMovesOn ==
    [][\A i \in DOMAIN dispatched' \ DOMAIN dispatched :
          LET d == dispatched'[i]
              before == EarlierAt(dispatched', i)
          IN
          (/\ before # {}
           /\ Cardinality(RegisteredAt(d.realm, d.node, d.pre)) >= 2)
          => d.callee # dispatched'[CHOOSE j \in before : \A k \in before : k <= j].callee]_vars

\* ---- client: the router refuses the session

\* C40: if the router answers the client's Hello with Abort (for example
\* because the realm does not exist), Connection::connect returns an error to
\* its caller: it does not return a Client, does not block forever and does
\* not panic.
C40_AbortFailsConnect ==
    user.refused
    => /\ connect_returns \in {"blocked", "Err"}
       /\ client.link = "gone" => connect_returns = "Err"

\* ---- router: the reply comes before the deliveries

\* The entries of connection c in the lists of realm r's tries that carry the
\* given id.
SubscriptionsOf(subs, r, c, id) ==
    {e \in SubEntries(subs[r]) :
        SubEntryId(subs[r], e) = id /\ SubEntryData(subs[r], e).subscriber = c}
RegistrationsOf(regs, r, c, id) ==
    {e \in RegEntries(regs[r]) :
        RegEntryId(regs[r], e) = id /\ RegEntryData(regs[r], e).registrant = c}

\* The step sent connection c a reply of the given type that gives it `id`.
Told(c, type, id) ==
    \E k \in 1..Len(sent') :
        sent'[k].to = c /\ sent'[k].msg.type = type /\ sent'[k].msg.id2 = id

\* C36: a client never receives an Event carrying a subscription id, or an
\* Invocation carrying a registration id, before it has received a Subscribed
\* or Registered reply that gave it that id, under any interleaving of
\* subscribers, callees, publishers and callers; hence the callback is in the
\* client's table whenever such an Event or Invocation is handled.  The router
\* sends a connection its messages in the order of the steps, so the claim is
\* that (a) an entry of a connection enters a list, and its id enters the
\* connection's subscribed_topics / registered_procedures, only in a step that
\* sends that connection the Subscribed / Registered with the id, and (b) an
\* Event / Invocation goes only to a connection that had such an entry, and
\* the id in its own list, before the step.
C36_ReplyBeforeDelivery ==
    [][/\ \A c \in Conns : \A r \in realms :
            /\ \A id \in DOMAIN subscription_ids_to_uris'[r] :
                  (\/ Cardinality(SubscriptionsOf(subscriptions', r, c, id))
                          > Cardinality(SubscriptionsOf(subscriptions, r, c, id))
                   \/ (id \in Range(subscribed_topics'[c])
                       /\ id \notin Range(subscribed_topics[c])))
                  => (last'.type = "Subscribe" /\ last'.conn = c
                      /\ Told(c, "Subscribed", id))
            /\ \A id \in DOMAIN registration_ids_to_uris'[r] :
                  (\/ Cardinality(RegistrationsOf(registrations', r, c, id))
                          > Cardinality(RegistrationsOf(registrations, r, c, id))
                   \/ (id \in Range(registered_procedures'[c])
                       /\ id \notin Range(registered_procedures[c])))
                  => (last'.type = "Register" /\ last'.conn = c
                      /\ Told(c, "Registered", id))
       /\ \A k \in 1..Len(sent') :
            LET to == sent'[k].to
                m == sent'[k].msg
            IN
            /\ m.type = "Event" =>
                  /\ \E r \in realms : SubscriptionsOf(subscriptions, r, to, m.id1) # {}
                  /\ m.id1 \in Range(subscribed_topics[to])
            /\ m.type = "Invocation" =>
                  /\ \E r \in realms : RegistrationsOf(registrations, r, to, m.id2) # {}
                  /\ m.id2 \in Range(registered_procedures[to])]_vars

\* A Publish has just sent an Event to a subscriber while both connections
\* hold subscriptions: the requests of the two connections were interleaved.
C36_Witness ==
    /\ last.type = "Publish"
    /\ \E k \in 1..Len(sent) :
          /\ sent[k].msg.type = "Event"
          /\ sent[k].to # last.conn
          /\ sent[k].msg.id1 \in Range(subscribed_topics[sent[k].to])
    /\ subscribed_topics[last.conn] # <<>>

\* ---- router: locks

\* Thread t is in Mutex::lock and another holder keeps it there.
Waiting(t) ==
    /\ locking.todo[t] # <<>>
    /\ Head(locking.todo[t]).op = "lock"
    /\ locking.owner[Head(locking.todo[t]).m] # "none"

\* Some threads wait for mutexes that only threads among them hold.
Deadlocked ==
    \E D \in SUBSET Threads :
        /\ D # {}
        /\ \A t \in D : Waiting(t) /\ locking.owner[Head(locking.todo[t]).m] \in D

\* The place of a mutex in the order realm map, realm, connection.
Rank(m) == CASE m = "realms" -> 0 [] m \in RealmNames -> 1 [] OTHER -> 2

\* C37: router handlers that run concurrently for different connections,
\* together with Router::shutdown, never deadlock: locks are always taken in
\* the order realm map, realm, connection, and no thread waits for the realm
\* map or a realm lock while it holds a connection lock.
C37_NoDeadlock ==
    /\ ~Deadlocked
    /\ \A t \in Threads :
          (locking.todo[t] # <<>> /\ Head(locking.todo[t]).op = "lock")
          => \A m \in Mutexes :
                locking.owner[m] = t => Rank(m) < Rank(Head(locking.todo[t]).m)

\* The caller of Router::shutdown holds the realm map and waits for the realm
\* that a handler holds, while the other handler waits for the realm map.
C37_Witness ==
    /\ locking.owner["realms"] = "shutdown"
    /\ Waiting("shutdown")
    /\ \E t \in {"handler1", "handler2"} :
          /\ Waiting(t) /\ Head(locking.todo[t]).m = "realms"
          /\ \E u \in {"handler1", "handler2"} \ {t} :
                \E r \in RealmNames :
                    locking.owner[r] = u /\ locking.owner[info(handled_by(u))] = u

\* ---- messages: codec

\* C31: for every message of each of the 20 variants, with args and kwargs
\* each either absent or present where the variant has them, and for both
\* encodings, decoding the encoded message gives back a message equal to the
\* original; an array whose first element is not one of the 20 tags fails to
\* decode.
C31_RoundTrip ==
    codec.stage = "decoded"
    => IF codec.sample
       THEN /\ codec.decoded.ok
            /\ codec.decoded.variant = codec.message.variant
            /\ codec.decoded.args = codec.message.args
            /\ codec.decoded.kwargs = codec.message.kwargs
       ELSE ~codec.decoded.ok

====
